---- MODULE Spec2Model ----
(***************************************************************************)
(* RCCA Helper: the investigation-state engine of App.tsx, the inspector   *)
(* (InspectorPanel.tsx), the import dialog (ImportDialog) and the          *)
(* persistence adapter (persistence.ts).                                   *)
(*                                                                         *)
(* Identifiers are the values crypto.randomUUID() hands out: modelled as   *)
(* the naturals 1, 2, 3, ... taken from the counter nextId, so that an id  *)
(* is never handed out twice.  Timestamps (new Date().toISOString()) are   *)
(* readings of the logical clock now.                                      *)
(* An optional isRootCause field (types.ts) that is absent is modelled as  *)
(* FALSE: the code reads it only through "=== true" and "?? false".        *)
(***************************************************************************)
EXTENDS Integers, Sequences, FiniteSets, TLC

\* ---------------------------------------------------------------- bounds
\* The last identifier crypto.randomUUID() hands out while the inspector is used
\* (Spec), and while the tree alone is edited (SpecTree).
MaxIds == 3
MaxTreeIds == 5
\* SpecImport: the longest array in an import file and the most investigations held.
MaxFileLen == 3
MaxTrees == 2
\* SpecLoad: the most investigations a stored document holds, and the last
\* identifier handed out after the App has mounted.
MaxStoredTrees == 2
MaxLoadIds == 3
\* The longest run of changes, and of saves, that is counted one by one.
MaxBurst == 3
\* SpecSave: the last identifier handed out.
MaxSaveIds == 3
\* SpecBackup: the last identifier handed out.
MaxBackupIds == 2
\* SpecItems: the last identifier handed out and the last reading of the clock.
MaxItemIds == 3
MaxTime == 3

\* JavaScript's null (an id that no object has).
Null == 0

VARIABLES
  trees,            \* App: useState<SavedTree[]>
  activeTreeId,     \* App: useState<string | null>
  selectedNodeId,   \* App: useState<string | null>
  initialized,      \* App: useState(false)
  activeTab,        \* InspectorPanel: useState('details')
  storage,          \* localStorage[STORAGE_KEY]
  now,              \* the wall clock read by new Date()
  nextId,           \* the next value of crypto.randomUUID()
  importCandidates, \* App: useState<SavedTree[] | null>
  checkedMap,       \* ImportDialog: useState<Record<string, boolean>>
  conflictMode,     \* ImportDialog: useState<'append' | 'overwrite'>
  hasUnsavedChanges,\* App: useState(false)
  settings,         \* App: useState<AppSettings>
  settingsStorage,  \* localStorage[SETTINGS_KEY]
  pendingSaves,     \* the timeouts of the auto-save effect that have not fired, oldest first
  saveBurst,        \* history: the changes and the saves since no save was pending
  backupTimer,      \* the auto-backup interval: when it was armed or last fired, or NoTimer
  dirtySince,       \* history: when hasUnsavedChanges last went from false to true
  currentView,      \* App: useState<'tree' | 'dashboard' | 'investigate' | 'resolutions'>
  rendered,         \* what the view shown computed when it was last rendered
  downloads,        \* the files the browser has downloaded (a.click() on a blob link)
  lastOp            \* history: the handler that ran last, its argument, its alert

appVars == <<trees, activeTreeId, selectedNodeId, initialized>>
importVars == <<importCandidates, checkedMap, conflictMode>>
timerVars == <<hasUnsavedChanges, pendingSaves, saveBurst, backupTimer, dirtySince>>
settingsVars == <<settings, settingsStorage>>
viewVars == <<currentView, rendered>>
vars == <<trees, activeTreeId, selectedNodeId, initialized, activeTab, storage,
          now, nextId, importCandidates, checkedMap, conflictMode,
          hasUnsavedChanges, settings, settingsStorage, pendingSaves, saveBurst,
          backupTimer, dirtySince,
          currentView, rendered, downloads, lastOp>>

\* ------------------------------------------------------------ data model
NodeStatus == {"PENDING", "ACTIVE", "RULED_OUT", "CONFIRMED"}

\* The label a field edit types into the header input of the inspector.
EditedLabel == "edited"

\* lastOp values. node: the node id the handler was called with; arg: the status
\* it was asked for, or the answer of window.confirm; message: the text it passed
\* to alert() or window.confirm(), "" when it showed none; wasRootCause: whether
\* the node it read was flagged as a root cause; file: the file it was given;
\* result: the state it was returned.
\* Handlers no property observes all leave OtherOp.
NoFile == [type |-> "none"]

\* loadAppState returned null.
NoState == [type |-> "null"]

Op(name, node, arg, message, wasRootCause) ==
  [op |-> name, node |-> node, arg |-> arg, message |-> message,
   wasRootCause |-> wasRootCause, file |-> NoFile, result |-> NoState]

\* loadAppState ran: the branch it took and the state it returned.
LoadOp(branch, result) ==
  [Op("loadAppState", Null, branch, "", FALSE) EXCEPT !.result = result]

FileOp(file, message) ==
  [Op("handleFileSelected", Null, "", message, FALSE) EXCEPT !.file = file]

NoOp == Op("none", Null, "", "", FALSE)
OtherOp == Op("other", Null, "", "", FALSE)

\* The result "null" of findNode / getSelectedNode.
NoNode == [id |-> Null]

\* ------------------------------------------------------- tree operations
createInitialTree(id, label) ==
  [id |-> id, parentId |-> Null, label |-> label, status |-> "PENDING",
   type |-> "ISSUE", isRootCause |-> FALSE, children |-> <<>>]

RECURSIVE flattenTree(_)
flattenTree(node) ==
  LET RECURSIVE rest(_)
      rest(i) == IF i > Len(node.children) THEN <<>>
                 ELSE flattenTree(node.children[i]) \o rest(i + 1)
  IN <<node>> \o rest(1)

RECURSIVE findNode(_, _)
findNode(root, id) ==
  IF root.id = id THEN root
  ELSE LET RECURSIVE firstFound(_)
           firstFound(i) ==
             IF i > Len(root.children) THEN NoNode
             ELSE LET found == findNode(root.children[i], id)
                  IN IF found # NoNode THEN found ELSE firstFound(i + 1)
       IN firstFound(1)

\* updateTree that looks at the root only.
updateTreeRootOnly(root, updatedNode) ==
  IF root.id = updatedNode.id THEN updatedNode ELSE root

RECURSIVE updateTree(_, _)
updateTree(root, updatedNode) ==
  IF root.id = updatedNode.id THEN updatedNode
  ELSE [root EXCEPT !.children =
          [i \in DOMAIN root.children |-> updateTree(root.children[i], updatedNode)]]

\* A new node that does not record its parent.
newCauseNodeDetached(id, parentId) ==
  [id |-> id, parentId |-> Null, label |-> "New Cause", status |-> "PENDING",
   type |-> "CAUSE", isRootCause |-> FALSE, children |-> <<>>]

newCauseNode(id, parentId) ==
  [id |-> id, parentId |-> parentId, label |-> "New Cause", status |-> "PENDING",
   type |-> "CAUSE", isRootCause |-> FALSE, children |-> <<>>]

\* addRecursive that puts the new node in front of the children.
RECURSIVE addRecursiveFirst(_, _, _)
addRecursiveFirst(node, parentId, newNode) ==
  IF node.id = parentId
  THEN [node EXCEPT !.children = <<newNode>> \o node.children]
  ELSE [node EXCEPT !.children =
          [i \in DOMAIN node.children |-> addRecursiveFirst(node.children[i], parentId, newNode)]]

RECURSIVE addRecursive(_, _, _)
addRecursive(node, parentId, newNode) ==
  IF node.id = parentId
  THEN [node EXCEPT !.children = Append(node.children, newNode)]
  ELSE [node EXCEPT !.children =
          [i \in DOMAIN node.children |-> addRecursive(node.children[i], parentId, newNode)]]

\* deleteRecursive that filters the children of the root only.
deleteRecursiveShallow(node, nodeId) ==
  [node EXCEPT !.children = SelectSeq(node.children, LAMBDA child : child.id # nodeId)]

RECURSIVE deleteRecursive(_, _)
deleteRecursive(node, nodeId) ==
  LET kept == SelectSeq(node.children, LAMBDA child : child.id # nodeId)
  IN [node EXCEPT !.children = [i \in DOMAIN kept |-> deleteRecursive(kept[i], nodeId)]]

\* ------------------------------------------------------ derived App state
\* trees.find(t => t.id === activeTreeId): the index of the first match, 0 if none.
activeIndex ==
  IF \E i \in DOMAIN trees : trees[i].id = activeTreeId
  THEN CHOOSE i \in DOMAIN trees :
         /\ trees[i].id = activeTreeId
         /\ \A j \in 1..(i - 1) : trees[j].id # activeTreeId
  ELSE 0

hasActiveTree == activeIndex # 0
activeTree == trees[activeIndex]
treeData == activeTree.treeData
notes == activeTree.notes

getSelectedNode ==
  IF selectedNodeId = Null \/ ~hasActiveTree THEN NoNode
  ELSE findNode(treeData, selectedNodeId)

hasSelectedNode == getSelectedNode # NoNode

\* InspectorPanel: notes.filter(n => n.referenceId === selectedNode.id)
nodeNotes == SelectSeq(notes, LAMBDA n : n.referenceId = getSelectedNode.id)

\* updateActiveTree that leaves updatedAt as it is.
updateActiveTreeKeepsStamp(updated) ==
  trees' = [i \in DOMAIN trees |->
              IF trees[i].id = activeTreeId THEN updated[i] ELSE trees[i]]

\* setTrees(prev => prev.map(t => t.id === activeTreeId
\*                                 ? {...updater(t), updatedAt: now} : t))
\* updated[i] is updater(prev[i]).
updateActiveTree(updated) ==
  trees' = [i \in DOMAIN trees |->
              IF trees[i].id = activeTreeId
              THEN [updated[i] EXCEPT !.updatedAt = now]
              ELSE trees[i]]

\* ---------------------------------------------------------------- effects
Min(a, b) == IF a <= b THEN a ELSE b

\* clearTimeout that leaves the timeout armed.
clearTimeoutNoop(pending) == pending

\* clearTimeout(saveTimerRef.current): the ref holds the timeout armed last, which
\* is the youngest of those that have not fired; clearing one that has fired does
\* nothing.
clearTimeout(pending) ==
  IF pending = <<>> THEN <<>> ELSE SubSeq(pending, 1, Len(pending) - 1)

\* No interval is running.
NoTimer == -1

\* The minutes one tick of the clock stands for where the auto-backup is timed.
MinutesPerTick == 5

\* intervalMs of the auto-backup effect, in ticks of the clock.
intervalMs(appSettings) == appSettings.autoBackupIntervalMinutes \div MinutesPerTick

\* The dependencies of the auto-backup effect that are settings.
backupSettingsChanged ==
  \/ settings'.autoBackupEnabled # settings.autoBackupEnabled
  \/ settings'.autoBackupIntervalMinutes # settings.autoBackupIntervalMinutes
  \/ settings'.projectFileName # settings.projectFileName

\* The auto-backup effect, dependencies [autoBackupEnabled, autoBackupIntervalMinutes,
\* projectFileName, initialized, trees, hasUnsavedChanges]: when one of them has
\* changed the cleanup clears the interval, and while auto-backup is enabled, the
\* App is initialized and the list is not empty setInterval starts a new one.
autoBackupEffect(depsChanged) ==
  backupTimer' =
    IF ~depsChanged THEN backupTimer
    ELSE IF settings'.autoBackupEnabled /\ initialized' /\ Len(trees') > 0 THEN now'
    ELSE NoTimer

\* The history of the flag: the instant it went from false to true.
flagHistory ==
  dirtySince' = IF hasUnsavedChanges' /\ ~hasUnsavedChanges THEN now' ELSE dirtySince

\* useEffects whose timeout saves the state of the render before the change.
useEffectsStale(setTreesCalled) ==
  LET saveDeps == setTreesCalled \/ activeTreeId' # activeTreeId \/ initialized' # initialized
      cleared == clearTimeout(pendingSaves)
  IN /\ hasUnsavedChanges' = IF setTreesCalled /\ initialized' THEN TRUE ELSE hasUnsavedChanges
     /\ pendingSaves' =
          IF ~saveDeps THEN pendingSaves
          ELSE IF initialized' /\ Len(trees') > 0
          THEN Append(cleared, [activeTreeId |-> activeTreeId, trees |-> trees])
          ELSE cleared
     /\ saveBurst' =
          IF ~saveDeps THEN saveBurst
          ELSE IF pendingSaves = <<>> THEN [changes |-> 1, saves |-> 0]
          ELSE [saveBurst EXCEPT !.changes = Min(@ + 1, MaxBurst)]
     /\ autoBackupEffect(setTreesCalled \/ initialized' # initialized
                           \/ hasUnsavedChanges' # hasUnsavedChanges \/ backupSettingsChanged)
     /\ flagHistory

\* The effects React runs after the render a handler caused.  setTreesCalled: the
\* handler gave setTrees a new array (a dependency changes when it is another
\* object, whatever it holds); activeTreeId and initialized change by value.
\*   [trees]                            if (initialized) setHasUnsavedChanges(true)
\*   [trees, activeTreeId, initialized] the timeout of the ref is cleared, and while
\*       initialized with a non-empty list a timeout is armed whose callback saves
\*       the activeTreeId and the trees of this render.
useEffects(setTreesCalled) ==
  LET saveDeps == setTreesCalled \/ activeTreeId' # activeTreeId \/ initialized' # initialized
      cleared == clearTimeout(pendingSaves)
  IN /\ hasUnsavedChanges' = IF setTreesCalled /\ initialized' THEN TRUE ELSE hasUnsavedChanges
     /\ pendingSaves' =
          IF ~saveDeps THEN pendingSaves
          ELSE IF initialized' /\ Len(trees') > 0
          THEN Append(cleared, [activeTreeId |-> activeTreeId', trees |-> trees'])
          ELSE cleared
     /\ saveBurst' =
          IF ~saveDeps THEN saveBurst
          ELSE IF pendingSaves = <<>> THEN [changes |-> 1, saves |-> 0]
          ELSE [saveBurst EXCEPT !.changes = Min(@ + 1, MaxBurst)]
     /\ autoBackupEffect(setTreesCalled \/ initialized' # initialized
                           \/ hasUnsavedChanges' # hasUnsavedChanges \/ backupSettingsChanged)
     /\ flagHistory

\* ---------------------------------------------------------- persistence
\* importCandidates === null (parseImportFile never resolves to an empty list).
NoCandidates == <<>>

\* localStorage.getItem(STORAGE_KEY) === null
NoStorage == [type |-> "absent"]

\* The investigation the load effect builds when nothing usable was saved.
defaultTree(id, rootId, at) ==
  [id |-> id, name |-> "New Investigation", createdAt |-> at, updatedAt |-> at,
   treeData |-> createInitialTree(rootId, "New Issue"),
   actions |-> <<>>, notes |-> <<>>, resolutions |-> <<>>]

\* Object spread {...a, ...b}: the fields of b, and those of a that b lacks.
Merge(a, b) ==
  [k \in DOMAIN a \cup DOMAIN b |-> IF k \in DOMAIN b THEN b[k] ELSE a[k]]

\* An object without one of its fields.
Without(record, field) == [k \in DOMAIN record \ {field} |-> record[k]]

\* migrateTree that returns the tree as it is.
migrateTreeAsIs(tree) == tree

\* persistence.migrateTree: {...tree, resolutions: tree.resolutions ?? []}
migrateTree(tree) ==
  Merge(tree, [resolutions |-> IF "resolutions" \in DOMAIN tree
                               THEN tree.resolutions ELSE <<>>])

\* The text of a file: not JSON at all, or the JSON of an array or of one object.
Garbage == [type |-> "garbage"]
JsonArray(items) == [type |-> "array", items |-> items]
JsonObject(item) == [type |-> "object", item |-> item]

\* An export that writes every field but isResolved.
exportWithoutResolved(tree) == JsonObject(Without(tree, "isResolved"))

\* JSON.stringify(tree) as exportTreeAsJson writes it.
exportTreeAsJson(tree) == JsonObject(tree)

\* !tree.treeData || !tree.id || !tree.name: a field is falsy when it is absent
\* (undefined), null, or the empty string.
isInvalid(item) ==
  \/ "treeData" \notin DOMAIN item \/ item.treeData = NoNode
  \/ "id" \notin DOMAIN item \/ item.id = Null
  \/ "name" \notin DOMAIN item \/ item.name = ""

\* `Invalid investigation in file: "${item.name || 'unknown'}"`
InvalidMessage(item) ==
  "Invalid investigation in file: \"" \o
    (IF "name" \in DOMAIN item /\ item.name # "" THEN item.name ELSE "unknown") \o "\""

\* parseImportFile that leaves the invalid records out instead of rejecting the file.
parseImportFileSkipsInvalid(file) ==
  IF file.type = "garbage" THEN [ok |-> FALSE, message |-> "Failed to parse JSON file"]
  ELSE LET candidates == IF file.type = "array" THEN file.items ELSE <<file.item>>
           kept == SelectSeq(candidates, LAMBDA item : ~isInvalid(item))
       IN IF Len(kept) = 0
          THEN [ok |-> FALSE, message |-> "File contains no investigations"]
          ELSE [ok |-> TRUE, value |-> [i \in DOMAIN kept |-> migrateTree(kept[i])]]

\* persistence.parseImportFile: the promise resolves with the validated list
\* (ok) or rejects with an Error carrying a message.
parseImportFile(file) ==
  IF file.type = "garbage" THEN [ok |-> FALSE, message |-> "Failed to parse JSON file"]
  ELSE LET candidates == IF file.type = "array" THEN file.items ELSE <<file.item>>
           bad == {i \in DOMAIN candidates : isInvalid(candidates[i])}
       IN IF Len(candidates) = 0
          THEN [ok |-> FALSE, message |-> "File contains no investigations"]
          ELSE IF bad # {}
          THEN [ok |-> FALSE,
                message |-> InvalidMessage(candidates[CHOOSE i \in bad : \A j \in bad : i <= j])]
          ELSE [ok |-> TRUE,
                value |-> [i \in DOMAIN candidates |-> migrateTree(candidates[i])]]

DEFAULT_PROJECT_ID == "default-project"

\* persistence.migrateV1toV2
migrateV1toV2(v1State) ==
  LET defaultProject == [id |-> DEFAULT_PROJECT_ID, name |-> "Default Project",
                         description |-> "Migrated investigations",
                         createdAt |-> now, updatedAt |-> now]
      migratedTrees == [i \in DOMAIN v1State.trees |->
                          Merge(migrateTree(v1State.trees[i]),
                                [projectId |-> DEFAULT_PROJECT_ID])]
  IN Merge([version |-> 2, activeProjectId |-> DEFAULT_PROJECT_ID,
            projects |-> <<defaultProject>>, trees |-> migratedTrees],
           IF "activeTreeId" \in DOMAIN v1State
           THEN [activeTreeId |-> v1State.activeTreeId] ELSE <<>>)

DEFAULT_SETTINGS ==
  [autoBackupEnabled |-> FALSE, autoBackupIntervalMinutes |-> 15,
   projectFileName |-> "RCCA_Backup", theme |-> "light"]

\* persistence.loadSettings on what localStorage holds under SETTINGS_KEY.
loadSettings(raw) ==
  IF raw = NoStorage \/ raw.type # "object" THEN DEFAULT_SETTINGS
  ELSE Merge(DEFAULT_SETTINGS, raw.item)

\* persistence.saveSettings
saveSettings(newSettings) == JsonObject(newSettings)

\* persistence.saveAppState: what localStorage holds after setItem.
saveAppState(state) == JsonObject(state)

\* loadAppState that migrates whatever it finds, a version-2 document included.
loadAppStateAlwaysMigrates(raw) ==
  IF raw = NoStorage
  THEN [result |-> NoState, branch |-> "absent", storage |-> raw]
  ELSE IF raw.type # "object" \/ "trees" \notin DOMAIN raw.item
  THEN [result |-> NoState, branch |-> "catch", storage |-> raw]
  ELSE LET migratedState == migrateV1toV2(raw.item)
       IN [result |-> migratedState,
           branch |-> IF "version" \in DOMAIN raw.item THEN "v2" ELSE "v1",
           storage |-> saveAppState(migratedState)]

\* loadAppState without its try / catch.
loadAppStateNoCatch(raw) ==
  IF raw = NoStorage
  THEN [result |-> NoState, branch |-> "absent", storage |-> raw]
  ELSE IF raw.type # "object" \/ "trees" \notin DOMAIN raw.item
  THEN [result |-> NoState, branch |-> "throws", storage |-> raw]
  ELSE IF "version" \notin DOMAIN raw.item
  THEN LET migratedState == migrateV1toV2(raw.item)
       IN [result |-> migratedState, branch |-> "v1", storage |-> saveAppState(migratedState)]
  ELSE LET state == raw.item
       IN [result |->
             Merge(state,
                   [trees |-> [i \in DOMAIN state.trees |->
                                 Merge(migrateTree(state.trees[i]),
                                       IF "projectId" \in DOMAIN state.trees[i]
                                       THEN [projectId |-> state.trees[i].projectId]
                                       ELSE <<>>)]]),
           branch |-> "v2", storage |-> raw]

\* persistence.loadAppState on what localStorage holds: the state it returns
\* (NoState for null), the branch it took, and what localStorage holds afterwards.
\* Text that is not JSON, JSON that is not an object, and an object without a
\* trees array all end in the catch clause.
loadAppState(raw) ==
  IF raw = NoStorage
  THEN [result |-> NoState, branch |-> "absent", storage |-> raw]
  ELSE IF raw.type # "object" \/ "trees" \notin DOMAIN raw.item
  THEN [result |-> NoState, branch |-> "catch", storage |-> raw]
  ELSE IF "version" \notin DOMAIN raw.item
  THEN LET migratedState == migrateV1toV2(raw.item)
       IN [result |-> migratedState, branch |-> "v1", storage |-> saveAppState(migratedState)]
  ELSE LET state == raw.item
       IN [result |->
             Merge(state,
                   [trees |-> [i \in DOMAIN state.trees |->
                                 Merge(migrateTree(state.trees[i]),
                                       IF "projectId" \in DOMAIN state.trees[i]
                                       THEN [projectId |-> state.trees[i].projectId]
                                       ELSE <<>>)]]),
           branch |-> "v2", storage |-> raw]

\* String.prototype.trim and toLowerCase on the names that occur in the model
\* (every other name of the model is its own trimmed, respectively lower-case, form).
trim(name) ==
  CASE name = " NEW Investigation " -> "NEW Investigation"
    [] OTHER -> name

toLowerCase(name) ==
  CASE name = "New Investigation" -> "new investigation"
    [] name = "NEW Investigation" -> "new investigation"
    [] name = " NEW Investigation " -> " new investigation "
    [] name = "Valve" -> "valve"
    [] name = "Pump" -> "pump"
    [] OTHER -> name

\* name.trim().toLowerCase()
normalizedName(name) == toLowerCase(trim(name))

\* ------------------------------------------------------------- handlers
\* App: the load effect that runs once on mount.  An error loadAppState raised
\* would end the effect before its first setter.
Mount ==
  /\ ~initialized
  /\ IF loadAppState(storage).branch = "throws"
     THEN /\ lastOp' = LoadOp("throws", NoState)
          /\ UNCHANGED <<appVars, activeTab, storage, now, nextId, importVars, timerVars,
                         settingsVars, viewVars, downloads>>
     ELSE /\ LET loaded == loadAppState(storage)
                 saved == loaded.result
             IN /\ IF saved # NoState /\ Len(saved.trees) > 0
                   THEN /\ trees' = saved.trees
                        /\ activeTreeId' = IF "activeTreeId" \in DOMAIN saved /\ saved.activeTreeId # Null
                                           THEN saved.activeTreeId ELSE saved.trees[1].id
                        /\ UNCHANGED nextId
                   ELSE /\ trees' = <<defaultTree(nextId, nextId + 1, now)>>
                        /\ activeTreeId' = nextId
                        /\ nextId' = nextId + 2
                /\ storage' = loaded.storage
                /\ lastOp' = LoadOp(loaded.branch, saved)
          /\ settings' = loadSettings(settingsStorage)
          /\ initialized' = TRUE
          /\ UNCHANGED <<selectedNodeId, activeTab, importVars, now, settingsStorage, viewVars, downloads>>
          /\ useEffects(TRUE)

\* TreeVisualizer: onSelectNode(node), for a node drawn in the tree.
SelectNode(id) ==
  /\ initialized /\ hasActiveTree
  /\ findNode(treeData, id) # NoNode
  /\ selectedNodeId' = id
  /\ lastOp' = OtherOp
  /\ UNCHANGED <<trees, activeTreeId, initialized, activeTab, storage, importVars, now, nextId, timerVars, settingsVars, viewVars, downloads>>

\* InspectorPanel: the tab buttons (the Corrective tab is drawn for a root cause only).
SetActiveTab(tab) ==
  /\ initialized /\ hasSelectedNode
  /\ tab = "resolutions" =>
       (getSelectedNode.status = "CONFIRMED" /\ getSelectedNode.isRootCause)
  /\ activeTab' = tab
  /\ lastOp' = OtherOp
  /\ UNCHANGED <<appVars, storage, importVars, now, nextId, timerVars, settingsVars, viewVars, downloads>>

\* App.addChildNode(parentId)
addChildNode(parentId) ==
  /\ initialized /\ hasActiveTree
  /\ LET newNode == newCauseNode(nextId, parentId)
         updater(tree) == [tree EXCEPT !.treeData = addRecursive(tree.treeData, parentId, newNode)]
     IN /\ updateActiveTree([t \in DOMAIN trees |-> updater(trees[t])])
        /\ selectedNodeId' = newNode.id
  /\ nextId' = nextId + 1
  /\ lastOp' = Op("addChildNode", parentId, "", "", FALSE)
  /\ UNCHANGED <<activeTreeId, initialized, activeTab, storage, importVars, now, settingsVars, viewVars, downloads>>
  /\ useEffects(TRUE)

CannotDeleteRoot == "Cannot delete the root issue."

\* deleteNode without the check for the root.
deleteNodeUnguarded(nodeId, confirmed) ==
  /\ initialized /\ hasActiveTree
  /\ LET updater(tree) == [tree EXCEPT !.treeData = deleteRecursive(tree.treeData, nodeId)]
     IN IF ~confirmed
        THEN /\ lastOp' = Op("deleteNode", nodeId, "cancelled", "", FALSE)
             /\ UNCHANGED <<trees, selectedNodeId>>
        ELSE /\ updateActiveTree([t \in DOMAIN trees |-> updater(trees[t])])
             /\ selectedNodeId' = IF selectedNodeId = nodeId THEN Null ELSE selectedNodeId
             /\ lastOp' = Op("deleteNode", nodeId, "confirmed", "", FALSE)
  /\ UNCHANGED <<activeTreeId, initialized, activeTab, storage, importVars, now, nextId, settingsVars, viewVars, downloads>>
  /\ useEffects(confirmed)

\* deleteNode that also drops the actions and the notes of the deleted node.
deleteNodeCascading(nodeId, confirmed) ==
  /\ initialized /\ hasActiveTree
  /\ LET updater(tree) ==
           [tree EXCEPT !.treeData = deleteRecursive(tree.treeData, nodeId),
                        !.actions = SelectSeq(tree.actions, LAMBDA a : a.causeId # nodeId),
                        !.notes = SelectSeq(tree.notes, LAMBDA n : n.referenceId # nodeId)]
     IN IF nodeId = treeData.id \/ ~confirmed
        THEN /\ lastOp' = Op("deleteNode", nodeId, "cancelled", "", FALSE)
             /\ UNCHANGED <<trees, selectedNodeId>>
        ELSE /\ updateActiveTree([t \in DOMAIN trees |-> updater(trees[t])])
             /\ selectedNodeId' = IF selectedNodeId = nodeId THEN Null ELSE selectedNodeId
             /\ lastOp' = Op("deleteNode", nodeId, "confirmed", "", FALSE)
  /\ UNCHANGED <<activeTreeId, initialized, activeTab, storage, importVars, now, nextId, settingsVars, viewVars, downloads>>
  /\ useEffects(nodeId # treeData.id /\ confirmed)

\* The question deleteNode puts to window.confirm.
confirmMessage(nodeToDelete) ==
  LET label == IF nodeToDelete = NoNode THEN "undefined" ELSE nodeToDelete.label
      childCount == IF nodeToDelete = NoNode THEN 0 ELSE Len(nodeToDelete.children)
  IN IF childCount > 0
     THEN "Delete \"" \o label \o "\" and its " \o ToString(childCount) \o " child node(s)?"
     ELSE "Delete \"" \o label \o "\"?"

\* App.deleteNode(nodeId); confirmed is the answer window.confirm returns.
deleteNode(nodeId, confirmed) ==
  /\ initialized /\ hasActiveTree
  /\ IF nodeId = treeData.id
     THEN /\ lastOp' = Op("deleteNode", nodeId, "", CannotDeleteRoot, FALSE)
          /\ UNCHANGED <<trees, selectedNodeId>>
     ELSE LET message == confirmMessage(findNode(treeData, nodeId))
              updater(tree) ==
                [tree EXCEPT !.treeData = deleteRecursive(tree.treeData, nodeId)]
          IN IF ~confirmed
             THEN /\ lastOp' = Op("deleteNode", nodeId, "cancelled", message, FALSE)
                  /\ UNCHANGED <<trees, selectedNodeId>>
             ELSE /\ updateActiveTree([t \in DOMAIN trees |-> updater(trees[t])])
                  /\ selectedNodeId' = IF selectedNodeId = nodeId THEN Null ELSE selectedNodeId
                  /\ lastOp' = Op("deleteNode", nodeId, "confirmed", message, FALSE)
  /\ UNCHANGED <<activeTreeId, initialized, activeTab, storage, importVars, now, nextId, settingsVars, viewVars, downloads>>
  /\ useEffects(nodeId # treeData.id /\ confirmed)

\* App.handleUpdateNode(updatedNode)
handleUpdateNode(updatedNode) ==
  LET updater(tree) == [tree EXCEPT !.treeData = updateTree(tree.treeData, updatedNode)]
  IN updateActiveTree([t \in DOMAIN trees |-> updater(trees[t])])

\* InspectorPanel.handleStatusChange: nodeNotes.some(n => n.isEvidence)
hasEvidence == \E i \in DOMAIN nodeNotes : nodeNotes[i].isEvidence

PolicyViolation ==
  "Policy Violation: You cannot rule out a cause without attaching evidence. Please add a Note marked as Evidence first."

\* handleStatusChange with the evidence check left out.
handleStatusChangeUngated(newStatus) ==
  /\ initialized /\ hasSelectedNode /\ activeTab = "details"
  /\ handleUpdateNode(
       [getSelectedNode EXCEPT
          !.status = newStatus,
          !.isRootCause = IF newStatus # "CONFIRMED" THEN FALSE ELSE @])
  /\ lastOp' = Op("handleStatusChange", Null, newStatus, "", getSelectedNode.isRootCause)
  /\ UNCHANGED <<activeTreeId, selectedNodeId, initialized, activeTab, storage, importVars, now, nextId, settingsVars, viewVars, downloads>>
  /\ useEffects(TRUE)

\* handleStatusChange that keeps the root-cause flag whatever the new status.
handleStatusChangeKeepsFlag(newStatus) ==
  /\ initialized /\ hasSelectedNode /\ activeTab = "details"
  /\ IF newStatus = "RULED_OUT" /\ ~hasEvidence
     THEN /\ activeTab' = "notes"
          /\ lastOp' = Op("handleStatusChange", Null, newStatus, PolicyViolation,
                         getSelectedNode.isRootCause)
          /\ UNCHANGED trees
     ELSE /\ handleUpdateNode([getSelectedNode EXCEPT !.status = newStatus])
          /\ lastOp' = Op("handleStatusChange", Null, newStatus, "",
                         getSelectedNode.isRootCause)
          /\ UNCHANGED activeTab
  /\ UNCHANGED <<activeTreeId, selectedNodeId, initialized, storage, importVars, now, nextId, settingsVars, viewVars, downloads>>
  /\ useEffects(~(newStatus = "RULED_OUT" /\ ~hasEvidence))

\* InspectorPanel.handleStatusChange(newStatus): the status buttons of the Details tab.
handleStatusChange(newStatus) ==
  /\ initialized /\ hasSelectedNode /\ activeTab = "details"
  /\ IF newStatus = "RULED_OUT" /\ ~hasEvidence
     THEN /\ activeTab' = "notes"
          /\ lastOp' = Op("handleStatusChange", Null, newStatus, PolicyViolation,
                         getSelectedNode.isRootCause)
          /\ UNCHANGED trees
     ELSE /\ handleUpdateNode(
               [getSelectedNode EXCEPT
                  !.status = newStatus,
                  !.isRootCause = IF newStatus # "CONFIRMED" THEN FALSE ELSE @])
          /\ lastOp' = Op("handleStatusChange", Null, newStatus, "",
                         getSelectedNode.isRootCause)
          /\ UNCHANGED activeTab
  /\ UNCHANGED <<activeTreeId, selectedNodeId, initialized, storage, importVars, now, nextId, settingsVars, viewVars, downloads>>
  /\ useEffects(~(newStatus = "RULED_OUT" /\ ~hasEvidence))

\* InspectorPanel: the "Mark as Root Cause" checkbox, drawn while status is CONFIRMED.
RootCauseCheckbox(checked) ==
  /\ initialized /\ hasSelectedNode /\ activeTab = "details"
  /\ getSelectedNode.status = "CONFIRMED"
  /\ handleUpdateNode([getSelectedNode EXCEPT !.isRootCause = checked])
  /\ lastOp' = OtherOp
  /\ UNCHANGED <<activeTreeId, selectedNodeId, initialized, activeTab, storage, importVars, now, nextId, settingsVars, viewVars, downloads>>
  /\ useEffects(TRUE)

\* InspectorPanel: the header input (label); description and rationale are edited
\* by the same call with another field.
EditLabel(text) ==
  /\ initialized /\ hasSelectedNode
  /\ handleUpdateNode([getSelectedNode EXCEPT !.label = text])
  /\ lastOp' = OtherOp
  /\ UNCHANGED <<activeTreeId, selectedNodeId, initialized, activeTab, storage, importVars, now, nextId, settingsVars, viewVars, downloads>>
  /\ useEffects(TRUE)

\* App.handleAddNote / handleDeleteNote as functions of the notes list.
addNote(list, note) == Append(list, note)
deleteNoteById(list, id) == SelectSeq(list, LAMBDA n : n.id # id)

\* InspectorPanel: the Add button of the Notes tab -> App.handleAddNote
AddNote ==
  /\ initialized /\ hasSelectedNode /\ activeTab = "notes"
  /\ LET note == [id |-> nextId, referenceId |-> getSelectedNode.id,
                  content |-> "", isEvidence |-> FALSE]
         updater(tree) == [tree EXCEPT !.notes = addNote(tree.notes, note)]
     IN updateActiveTree([t \in DOMAIN trees |-> updater(trees[t])])
  /\ nextId' = nextId + 1
  /\ lastOp' = OtherOp
  /\ UNCHANGED <<activeTreeId, selectedNodeId, initialized, activeTab, storage, importVars, now, settingsVars, viewVars, downloads>>
  /\ useEffects(TRUE)

\* InspectorPanel: the delete button of a note -> App.handleDeleteNote
DeleteNote(i) ==
  /\ initialized /\ hasSelectedNode /\ activeTab = "notes"
  /\ i \in DOMAIN nodeNotes
  /\ LET id == nodeNotes[i].id
         updater(tree) == [tree EXCEPT !.notes = deleteNoteById(tree.notes, id)]
     IN updateActiveTree([t \in DOMAIN trees |-> updater(trees[t])])
  /\ lastOp' = OtherOp
  /\ UNCHANGED <<activeTreeId, selectedNodeId, initialized, activeTab, storage, importVars, now, nextId, settingsVars, viewVars, downloads>>
  /\ useEffects(TRUE)

\* InspectorPanel: the "Mark as Evidence" checkbox of a note:
\* onDeleteNote(note.id); onAddNote({...note, isEvidence: checked})
EvidenceCheckbox(i) ==
  /\ initialized /\ hasSelectedNode /\ activeTab = "notes"
  /\ i \in DOMAIN nodeNotes
  /\ LET note == nodeNotes[i]
         updated == [note EXCEPT !.isEvidence = ~note.isEvidence]
         updater(tree) ==
           [tree EXCEPT !.notes = addNote(deleteNoteById(tree.notes, note.id), updated)]
     IN updateActiveTree([t \in DOMAIN trees |-> updater(trees[t])])
  /\ lastOp' = OtherOp
  /\ UNCHANGED <<activeTreeId, selectedNodeId, initialized, activeTab, storage, importVars, now, nextId, settingsVars, viewVars, downloads>>
  /\ useEffects(TRUE)

\* ImportDialog: the initial checkedMap, every candidate id checked.
initialCheckedMap(candidates) ==
  [id \in {candidates[i].id : i \in DOMAIN candidates} |-> TRUE]

\* App.handleFileSelected(file): the import dialog mounts when the file parses.
handleFileSelected(file) ==
  /\ initialized /\ importCandidates = NoCandidates
  /\ LET parsed == parseImportFile(file)
     IN IF parsed.ok
        THEN /\ importCandidates' = parsed.value
             /\ checkedMap' = initialCheckedMap(parsed.value)
             /\ conflictMode' = "append"
             /\ lastOp' = FileOp(file, "")
        ELSE /\ lastOp' = FileOp(file, parsed.message)
             /\ UNCHANGED <<importCandidates, checkedMap, conflictMode>>
  /\ UNCHANGED <<appVars, activeTab, storage, now, nextId, timerVars, settingsVars, viewVars, downloads>>

\* ImportDialog.conflicts: the ids of the candidates whose normalized name is the
\* normalized name of an existing investigation.
conflicts ==
  {importCandidates[i].id : i \in
     {c \in DOMAIN importCandidates :
        \E t \in DOMAIN trees :
          normalizedName(trees[t].name) = normalizedName(importCandidates[c].name)}}

hasAnyConflicts == conflicts # {}
selectedCount == Cardinality({id \in DOMAIN checkedMap : checkedMap[id]})
allChecked == selectedCount = Len(importCandidates)

\* ImportDialog.toggleOne(id)
toggleOne(id) ==
  /\ importCandidates # NoCandidates
  /\ id \in DOMAIN checkedMap
  /\ checkedMap' = [checkedMap EXCEPT ![id] = ~@]
  /\ lastOp' = OtherOp
  /\ UNCHANGED <<appVars, activeTab, storage, now, nextId, importCandidates, conflictMode, timerVars, settingsVars, viewVars, downloads>>

\* ImportDialog.toggleAll
toggleAll ==
  /\ importCandidates # NoCandidates
  /\ checkedMap' = [id \in {importCandidates[i].id : i \in DOMAIN importCandidates} |->
                      ~allChecked]
  /\ lastOp' = OtherOp
  /\ UNCHANGED <<appVars, activeTab, storage, now, nextId, importCandidates, conflictMode, timerVars, settingsVars, viewVars, downloads>>

\* ImportDialog: the conflict-mode radio buttons, drawn when there is a conflict.
setConflictMode(mode) ==
  /\ importCandidates # NoCandidates
  /\ hasAnyConflicts
  /\ conflictMode' = mode
  /\ lastOp' = OtherOp
  /\ UNCHANGED <<appVars, activeTab, storage, now, nextId, importCandidates, checkedMap, timerVars, settingsVars, viewVars, downloads>>

\* ImportDialog.onClose: setImportCandidates(null); the dialog unmounts.
onClose ==
  /\ importCandidates # NoCandidates
  /\ importCandidates' = NoCandidates
  /\ checkedMap' = <<>>
  /\ conflictMode' = "append"
  /\ lastOp' = OtherOp
  /\ UNCHANGED <<appVars, activeTab, storage, now, nextId, timerVars, settingsVars, viewVars, downloads>>

\* updatedTrees.findIndex(t => t.name.trim().toLowerCase() === normalizedName):
\* the first index that matches, 0 for -1.
findIndexByName(updatedTrees, name) ==
  LET matches == {i \in DOMAIN updatedTrees :
                    normalizedName(updatedTrees[i].name) = normalizedName(name)}
  IN IF matches = {} THEN 0 ELSE CHOOSE i \in matches : \A j \in matches : i <= j

\* importOne that overwrites a match whatever the conflict mode.
importOneIgnoresMode(acc, importedTree, mode) ==
  LET existingIndex == findIndexByName(acc.updatedTrees, importedTree.name)
  IN IF existingIndex # 0
     THEN LET existingId == acc.updatedTrees[existingIndex].id
          IN [updatedTrees |->
                [acc.updatedTrees EXCEPT
                   ![existingIndex] = Merge(importedTree, [id |-> existingId, updatedAt |-> now])],
              firstResultId |->
                IF acc.firstResultId = Null THEN existingId ELSE acc.firstResultId,
              nextId |-> acc.nextId]
     ELSE [updatedTrees |-> Append(acc.updatedTrees, Merge(importedTree, [id |-> acc.nextId])),
           firstResultId |-> IF acc.firstResultId = Null THEN acc.nextId ELSE acc.firstResultId,
           nextId |-> acc.nextId + 1]

\* One turn of the loop of handleImportConfirm.  acc holds updatedTrees,
\* firstResultId and the next value of crypto.randomUUID().
importOne(acc, importedTree, mode) ==
  LET existingIndex == findIndexByName(acc.updatedTrees, importedTree.name)
  IN IF existingIndex # 0 /\ mode = "overwrite"
     THEN LET existingId == acc.updatedTrees[existingIndex].id
          IN [updatedTrees |->
                [acc.updatedTrees EXCEPT
                   ![existingIndex] = Merge(importedTree, [id |-> existingId, updatedAt |-> now])],
              firstResultId |->
                IF acc.firstResultId = Null THEN existingId ELSE acc.firstResultId,
              nextId |-> acc.nextId]
     ELSE LET newId == acc.nextId
          IN [updatedTrees |-> Append(acc.updatedTrees, Merge(importedTree, [id |-> newId])),
              firstResultId |-> IF acc.firstResultId = Null THEN newId ELSE acc.firstResultId,
              nextId |-> acc.nextId + 1]

\* for (const importedTree of selected) { ... }
RECURSIVE importLoop(_, _, _)
importLoop(acc, selected, mode) ==
  IF selected = <<>> THEN acc
  ELSE importLoop(importOne(acc, Head(selected), mode), Tail(selected), mode)

\* App.handleImportConfirm(selected, conflictMode).  firstResultId is assigned
\* inside the setTrees updater: React runs an updater either at once (eager) or at
\* the next render, after the handler has tested firstResultId.
handleImportConfirm(selected, mode, eager) ==
  LET result == importLoop([updatedTrees |-> trees, firstResultId |-> Null, nextId |-> nextId],
                           selected, mode)
  IN /\ trees' = result.updatedTrees
     /\ nextId' = result.nextId
     /\ activeTreeId' = IF eager /\ result.firstResultId # Null
                        THEN result.firstResultId ELSE activeTreeId
     /\ selectedNodeId' = Null
     /\ importCandidates' = NoCandidates
     /\ lastOp' = Op("handleImportConfirm", result.firstResultId, mode, "", FALSE)

\* ImportDialog.handleConfirm: the Import button, disabled while nothing is checked.
handleConfirm(eager) ==
  /\ importCandidates # NoCandidates
  /\ selectedCount > 0
  /\ handleImportConfirm(SelectSeq(importCandidates, LAMBDA t : checkedMap[t.id]),
                         conflictMode, eager)
  /\ checkedMap' = <<>>
  /\ conflictMode' = "append"
  /\ UNCHANGED <<initialized, activeTab, storage, now, settingsVars, viewVars, downloads>>
  /\ useEffects(TRUE)

\* The callback of the auto-save timeout: saveAppState({ activeTreeId, trees }) with
\* the values of the render that armed it.  The oldest timeout fires first.
saveTimerFires ==
  /\ pendingSaves # <<>>
  /\ storage' = saveAppState(Head(pendingSaves))
  /\ pendingSaves' = Tail(pendingSaves)
  /\ saveBurst' = [saveBurst EXCEPT !.saves = Min(@ + 1, MaxBurst)]
  /\ lastOp' = [Op("saveAppState", Null, "", "", FALSE) EXCEPT !.result = Head(pendingSaves)]
  /\ UNCHANGED <<appVars, activeTab, now, nextId, importVars, hasUnsavedChanges, settingsVars, viewVars, downloads,
                 backupTimer, dirtySince>>

\* App.handleCreateTree; name is what prompt() returns ("" for Cancel or no text).
handleCreateTree(name) ==
  /\ initialized
  /\ IF name = ""
     THEN UNCHANGED <<trees, activeTreeId, selectedNodeId, nextId>>
     ELSE /\ trees' = Append(trees, [defaultTree(nextId, nextId + 1, now) EXCEPT
                                       !.name = name,
                                       !.treeData = createInitialTree(nextId + 1, name)])
          /\ activeTreeId' = nextId
          /\ selectedNodeId' = Null
          /\ nextId' = nextId + 2
  /\ lastOp' = Op("handleCreateTree", Null, name, "", FALSE)
  /\ UNCHANGED <<initialized, activeTab, storage, importVars, now, settingsVars, viewVars, downloads>>
  /\ useEffects(name # "")

CannotDeleteLast == "Cannot delete the last investigation. Create another one first."

\* handleDeleteTree without the check for the last investigation.
handleDeleteTreeUnguarded(id, confirmed) ==
  /\ initialized
  /\ LET remaining == SelectSeq(trees, LAMBDA t : t.id # id)
     IN IF ~confirmed
        THEN /\ lastOp' = Op("handleDeleteTree", id, "cancelled", "", FALSE)
             /\ UNCHANGED <<trees, activeTreeId, selectedNodeId>>
        ELSE /\ trees' = remaining
             /\ activeTreeId' = IF activeTreeId = id
                                THEN (IF remaining = <<>> THEN Null ELSE remaining[1].id)
                                ELSE activeTreeId
             /\ selectedNodeId' = Null
             /\ lastOp' = Op("handleDeleteTree", id, "confirmed", "", FALSE)
  /\ UNCHANGED <<initialized, activeTab, storage, importVars, now, nextId, settingsVars, viewVars, downloads>>
  /\ useEffects(confirmed)

\* App.handleDeleteTree(id); confirmed is the answer window.confirm returns.
handleDeleteTree(id, confirmed) ==
  /\ initialized
  /\ LET remaining == SelectSeq(trees, LAMBDA t : t.id # id)
     IN IF Len(trees) <= 1
        THEN /\ lastOp' = Op("handleDeleteTree", id, "", CannotDeleteLast, FALSE)
             /\ UNCHANGED <<trees, activeTreeId, selectedNodeId>>
        ELSE IF ~confirmed
        THEN /\ lastOp' = Op("handleDeleteTree", id, "cancelled", "", FALSE)
             /\ UNCHANGED <<trees, activeTreeId, selectedNodeId>>
        ELSE /\ trees' = remaining
             /\ activeTreeId' = IF activeTreeId = id
                                THEN (IF remaining = <<>> THEN Null ELSE remaining[1].id)
                                ELSE activeTreeId
             /\ selectedNodeId' = Null
             /\ lastOp' = Op("handleDeleteTree", id, "confirmed", "", FALSE)
  /\ UNCHANGED <<initialized, activeTab, storage, importVars, now, nextId, settingsVars, viewVars, downloads>>
  /\ useEffects(Len(trees) > 1 /\ confirmed)

\* TreeManager: onSelectTree(id), for an investigation of the list.
onSelectTree(id) ==
  /\ initialized
  /\ \E i \in DOMAIN trees : trees[i].id = id
  /\ activeTreeId' = id
  /\ selectedNodeId' = Null
  /\ lastOp' = Op("onSelectTree", id, "", "", FALSE)
  /\ UNCHANGED <<trees, initialized, activeTab, storage, importVars, now, nextId, settingsVars, viewVars, downloads>>
  /\ useEffects(FALSE)

\* JSON.stringify(trees) as exportAllTreesAsJson and the auto-backup write it.
exportAllTreesAsJson(list) == JsonArray(list)

\* A handler that ran an export: the file it downloaded.
ExportOp(name, node, file) == [Op(name, node, "export", "", FALSE) EXCEPT !.file = file]

\* The callback of the auto-backup interval, which runs while auto-backup is
\* enabled, the App is initialized and the list is not empty: it downloads all
\* investigations if hasUnsavedChanges, and does nothing otherwise.
autoBackupTick ==
  /\ settings.autoBackupEnabled /\ initialized /\ Len(trees) > 0
  /\ IF hasUnsavedChanges
     THEN /\ hasUnsavedChanges' = FALSE
          /\ downloads' = downloads \cup {exportAllTreesAsJson(trees)}
          /\ lastOp' = ExportOp("autoBackup", Null, exportAllTreesAsJson(trees))
     ELSE /\ UNCHANGED <<hasUnsavedChanges, downloads>>
          /\ lastOp' = Op("autoBackup", Null, "skip", "", FALSE)
  /\ UNCHANGED <<appVars, activeTab, storage, now, nextId, importVars, settingsVars, viewVars,
                 pendingSaves, saveBurst>>
  /\ backupTimer' = now
  /\ flagHistory

\* App.handleExportTree(id)
handleExportTree(id) ==
  /\ initialized
  /\ IF \E i \in DOMAIN trees : trees[i].id = id
     THEN /\ hasUnsavedChanges' = FALSE
          /\ downloads' = downloads \cup
               {exportTreeAsJson(trees[CHOOSE i \in DOMAIN trees : trees[i].id = id])}
          /\ lastOp' = ExportOp("handleExportTree", id,
                                exportTreeAsJson(trees[CHOOSE i \in DOMAIN trees : trees[i].id = id]))
     ELSE /\ UNCHANGED <<hasUnsavedChanges, downloads>>
          /\ lastOp' = Op("handleExportTree", id, "", "", FALSE)
  /\ UNCHANGED <<appVars, activeTab, storage, now, nextId, importVars, settingsVars, viewVars,
                 pendingSaves, saveBurst>>
  /\ autoBackupEffect(hasUnsavedChanges' # hasUnsavedChanges)
  /\ flagHistory

\* App.handleExportAll
handleExportAll ==
  /\ initialized
  /\ IF Len(trees) = 0
     THEN /\ UNCHANGED <<hasUnsavedChanges, downloads>>
          /\ lastOp' = Op("handleExportAll", Null, "", "", FALSE)
     ELSE /\ hasUnsavedChanges' = FALSE
          /\ downloads' = downloads \cup {exportAllTreesAsJson(trees)}
          /\ lastOp' = ExportOp("handleExportAll", Null, exportAllTreesAsJson(trees))
  /\ UNCHANGED <<appVars, activeTab, storage, now, nextId, importVars, settingsVars, viewVars,
                 pendingSaves, saveBurst>>
  /\ autoBackupEffect(hasUnsavedChanges' # hasUnsavedChanges)
  /\ flagHistory

\* App.handleBackupNow
handleBackupNow ==
  /\ initialized
  /\ IF Len(trees) = 0
     THEN /\ UNCHANGED <<hasUnsavedChanges, downloads>>
          /\ lastOp' = Op("handleBackupNow", Null, "", "", FALSE)
     ELSE /\ hasUnsavedChanges' = FALSE
          /\ downloads' = downloads \cup {exportAllTreesAsJson(trees)}
          /\ lastOp' = ExportOp("handleBackupNow", Null, exportAllTreesAsJson(trees))
  /\ UNCHANGED <<appVars, activeTab, storage, now, nextId, importVars, settingsVars, viewVars,
                 pendingSaves, saveBurst>>
  /\ autoBackupEffect(hasUnsavedChanges' # hasUnsavedChanges)
  /\ flagHistory

\* App.handleUpdateSettings(newSettings)
handleUpdateSettings(newSettings) ==
  /\ initialized
  /\ settings' = newSettings
  /\ settingsStorage' = saveSettings(newSettings)
  /\ lastOp' = OtherOp
  /\ UNCHANGED <<appVars, activeTab, storage, now, nextId, importVars, viewVars, downloads,
                 hasUnsavedChanges, pendingSaves, saveBurst, dirtySince>>
  /\ autoBackupEffect(backupSettingsChanged)

\* The empty string of a date input that was never filled in.
NoDate == 0

\* InspectorPanel: the action the Add button of the Investigate tab creates.
newAction(id, causeId) ==
  [id |-> id, causeId |-> causeId, action |-> "New Action", assignee |-> "Unassigned",
   assignedDate |-> now, dueDate |-> NoDate, status |-> "Open"]

\* InspectorPanel.createNewResolution
createNewResolution(id, causeId) ==
  [id |-> id, linkedCauseIds |-> <<causeId>>, title |-> "New Resolution",
   owner |-> "Unassigned", targetDate |-> NoDate, status |-> "Draft",
   createdAt |-> now, updatedAt |-> now]

\* The resolutions of an investigation: tree.resolutions ?? []
resolutionsOf(tree) == IF "resolutions" \in DOMAIN tree THEN tree.resolutions ELSE <<>>

\* App.handleAddAction(action)
handleAddAction(action) ==
  /\ initialized /\ hasActiveTree
  /\ LET updater(tree) == [tree EXCEPT !.actions = Append(tree.actions, action)]
     IN updateActiveTree([t \in DOMAIN trees |-> updater(trees[t])])
  /\ nextId' = nextId + 1
  /\ lastOp' = Op("handleAddAction", action.id, "", "", FALSE)
  /\ UNCHANGED <<activeTreeId, selectedNodeId, initialized, activeTab, storage, importVars, now, settingsVars, viewVars, downloads>>
  /\ useEffects(TRUE)

\* App.handleUpdateAction(updated)
handleUpdateAction(updated) ==
  /\ initialized /\ hasActiveTree
  /\ LET updater(tree) ==
           [tree EXCEPT !.actions = [k \in DOMAIN tree.actions |->
                                       IF tree.actions[k].id = updated.id
                                       THEN updated ELSE tree.actions[k]]]
     IN updateActiveTree([t \in DOMAIN trees |-> updater(trees[t])])
  /\ lastOp' = Op("handleUpdateAction", updated.id, "", "", FALSE)
  /\ UNCHANGED <<activeTreeId, selectedNodeId, initialized, activeTab, storage, importVars, now, nextId, settingsVars, viewVars, downloads>>
  /\ useEffects(TRUE)

\* App.handleDeleteAction(id)
handleDeleteAction(id) ==
  /\ initialized /\ hasActiveTree
  /\ LET updater(tree) ==
           [tree EXCEPT !.actions = SelectSeq(tree.actions, LAMBDA a : a.id # id)]
     IN updateActiveTree([t \in DOMAIN trees |-> updater(trees[t])])
  /\ lastOp' = Op("handleDeleteAction", id, "", "", FALSE)
  /\ UNCHANGED <<activeTreeId, selectedNodeId, initialized, activeTab, storage, importVars, now, nextId, settingsVars, viewVars, downloads>>
  /\ useEffects(TRUE)

\* App.handleAddResolution(resolution)
handleAddResolution(resolution) ==
  /\ initialized /\ hasActiveTree
  /\ LET updater(tree) ==
           Merge(tree, [resolutions |-> Append(resolutionsOf(tree), resolution)])
     IN updateActiveTree([t \in DOMAIN trees |-> updater(trees[t])])
  /\ nextId' = nextId + 1
  /\ lastOp' = Op("handleAddResolution", resolution.id, "", "", FALSE)
  /\ UNCHANGED <<activeTreeId, selectedNodeId, initialized, activeTab, storage, importVars, now, settingsVars, viewVars, downloads>>
  /\ useEffects(TRUE)

\* App.handleUpdateResolution(updated)
handleUpdateResolution(updated) ==
  /\ initialized /\ hasActiveTree
  /\ LET updater(tree) ==
           Merge(tree,
                 [resolutions |->
                    [k \in DOMAIN resolutionsOf(tree) |->
                       IF resolutionsOf(tree)[k].id = updated.id
                       THEN [updated EXCEPT !.updatedAt = now]
                       ELSE resolutionsOf(tree)[k]]])
     IN updateActiveTree([t \in DOMAIN trees |-> updater(trees[t])])
  /\ lastOp' = Op("handleUpdateResolution", updated.id, "", "", FALSE)
  /\ UNCHANGED <<activeTreeId, selectedNodeId, initialized, activeTab, storage, importVars, now, nextId, settingsVars, viewVars, downloads>>
  /\ useEffects(TRUE)

\* App.handleDeleteResolution(id)
handleDeleteResolution(id) ==
  /\ initialized /\ hasActiveTree
  /\ LET updater(tree) ==
           Merge(tree,
                 [resolutions |-> SelectSeq(resolutionsOf(tree), LAMBDA r : r.id # id)])
     IN updateActiveTree([t \in DOMAIN trees |-> updater(trees[t])])
  /\ lastOp' = Op("handleDeleteResolution", id, "", "", FALSE)
  /\ UNCHANGED <<activeTreeId, selectedNodeId, initialized, activeTab, storage, importVars, now, nextId, settingsVars, viewVars, downloads>>
  /\ useEffects(TRUE)

\* Time passes: new Date() reads a later instant.
Tick ==
  /\ now < MaxTime
  /\ now' = now + 1
  /\ lastOp' = OtherOp
  /\ UNCHANGED <<appVars, activeTab, storage, nextId, importVars, timerVars, settingsVars, viewVars, downloads>>

\* App.handleToggleResolved(id)
handleToggleResolved(id) ==
  /\ initialized
  /\ trees' = [i \in DOMAIN trees |->
                 IF trees[i].id = id
                 THEN Merge(trees[i],
                            [isResolved |-> ~("isResolved" \in DOMAIN trees[i] /\ trees[i].isResolved),
                             updatedAt |-> now])
                 ELSE trees[i]]
  /\ lastOp' = OtherOp
  /\ UNCHANGED <<activeTreeId, selectedNodeId, initialized, activeTab, storage, importVars, now, nextId, settingsVars, viewVars, downloads>>
  /\ useEffects(TRUE)

\* ------------------------------------------------------------ treeUtils
ActionStatus == {"Open", "In Progress", "Complete", "Blocked", "Closed"}

\* A record of counts that starts without keys and gains a key with the first
\* item counted under it.
countSparse(items) ==
  LET RECURSIVE loop(_, _)
      loop(counts, i) ==
        IF i > Len(items) THEN counts
        ELSE loop([key \in DOMAIN counts \cup {items[i].status} |->
                     IF key = items[i].status
                     THEN (IF key \in DOMAIN counts THEN counts[key] + 1 ELSE 1)
                     ELSE counts[key]], i + 1)
  IN loop([key \in {} |-> 0], 1)

countNodesByStatusSparse(nodes) == countSparse(nodes)

\* treeUtils.countNodesByStatus(nodes): the record starts with the four keys at 0,
\* and counts[node.status]++ runs for each node in turn.
countNodesByStatus(nodes) ==
  LET RECURSIVE loop(_, _)
      loop(counts, i) ==
        IF i > Len(nodes) THEN counts
        ELSE loop([counts EXCEPT ![nodes[i].status] = @ + 1], i + 1)
  IN loop([status \in NodeStatus |-> 0], 1)

\* treeUtils.countActionsByStatus(actions): the same with the five action statuses.
countActionsByStatus(list) ==
  LET RECURSIVE loop(_, _)
      loop(counts, i) ==
        IF i > Len(list) THEN counts
        ELSE loop([counts EXCEPT ![list[i].status] = @ + 1], i + 1)
  IN loop([status \in ActionStatus |-> 0], 1)

\* treeUtils.getTreeStats(tree)
getTreeStats(tree) ==
  LET allNodes == flattenTree(tree.treeData)
  IN [totalNodes |-> Len(allNodes),
      nodesByStatus |-> countNodesByStatus(allNodes),
      actionsByStatus |-> countActionsByStatus(tree.actions),
      totalActions |-> Len(tree.actions),
      totalNotes |-> Len(tree.notes),
      totalEvidence |-> Len(SelectSeq(tree.notes, LAMBDA n : n.isEvidence)),
      confirmedCauses |-> SelectSeq(allNodes, LAMBDA n : n.status = "CONFIRMED")]

\* ------------------------------------------------------------ views
\* What a view computed when it was rendered: the statistics of each card and
\* the two groups of the dashboard, or the overdue count of a summary.
Render(view, stats, activeTrees, inactiveTrees, count) ==
  [view |-> view, stats |-> stats, activeTrees |-> activeTrees,
   inactiveTrees |-> inactiveTrees, overdueCount |-> count]

NoRender == Render("none", <<>>, <<>>, <<>>, 0)

\* A view was rendered: the history records which.
RenderOp(view) == Op(view, Null, "", "", FALSE)

\* App: the four buttons of the view switch, onClick={() => setCurrentView(view)}.
setCurrentView(view) ==
  /\ initialized
  /\ currentView' = view
  /\ lastOp' = OtherOp
  /\ UNCHANGED <<appVars, activeTab, storage, now, nextId, importVars, timerVars, settingsVars, rendered, downloads>>

\* counts[key] in a comparison with 0: a key the record lacks reads as undefined,
\* and undefined > 0 is false, with or without ?? 0.
countOf(counts, key) == IF key \in DOMAIN counts THEN counts[key] ELSE 0

\* A classification that also looks at the stored flag.
isActiveUnlessResolved(tree) ==
  LET stats == getTreeStats(tree)
  IN /\ ~("isResolved" \in DOMAIN tree /\ tree.isResolved)
     /\ \/ countOf(stats.nodesByStatus, "ACTIVE") > 0
        \/ countOf(stats.nodesByStatus, "CONFIRMED") > 0
        \/ countOf(stats.actionsByStatus, "Open") > 0
        \/ countOf(stats.actionsByStatus, "In Progress") > 0
        \/ countOf(stats.actionsByStatus, "Blocked") > 0

\* DashboardView.isActive(tree)
isActive(tree) ==
  LET stats == getTreeStats(tree)
      hasActiveNodes == \/ countOf(stats.nodesByStatus, "ACTIVE") > 0
                        \/ countOf(stats.nodesByStatus, "CONFIRMED") > 0
      hasOpenActions == \/ countOf(stats.actionsByStatus, "Open") > 0
                        \/ countOf(stats.actionsByStatus, "In Progress") > 0
                        \/ countOf(stats.actionsByStatus, "Blocked") > 0
  IN hasActiveNodes \/ hasOpenActions

\* DashboardView, rendered with the trees of the App: the two groups and the
\* statistics renderCard computes for each card.
DashboardView ==
  /\ initialized /\ currentView = "dashboard"
  /\ rendered' = Render("dashboard",
                        [i \in DOMAIN trees |-> getTreeStats(trees[i])],
                        SelectSeq(trees, isActive),
                        SelectSeq(trees, LAMBDA t : ~isActive(t)),
                        0)
  /\ lastOp' = RenderOp("DashboardView")
  /\ UNCHANGED <<appVars, activeTab, storage, now, nextId, importVars, timerVars, settingsVars, currentView, downloads>>

\* App.handleDashboardSelectTree(id): a card of the dashboard is clicked.
handleDashboardSelectTree(id) ==
  /\ initialized /\ currentView = "dashboard"
  /\ activeTreeId' = id
  /\ selectedNodeId' = Null
  /\ currentView' = "tree"
  /\ lastOp' = OtherOp
  /\ UNCHANGED <<trees, initialized, activeTab, storage, importVars, now, nextId, settingsVars, rendered, downloads>>
  /\ useEffects(FALSE)

\* The length of a day on the clock of the model.
TicksPerDay == 2

\* new Date(value) for the value of a date input, "YYYY-MM-DD": the instant the
\* day starts (UTC).
Date(value) == value * TicksPerDay

\* An overdue count that does not look at the status.
overdueCountAnyStatus(list, at) ==
  Len(SelectSeq(list, LAMBDA r : IF r.targetDate = NoDate THEN FALSE
                                 ELSE Date(r.targetDate) < at))

\* ResolutionsSummary.overdueCount, with new Date() reading the instant at.
overdueCount(list, at) ==
  Len(SelectSeq(list, LAMBDA r :
        IF r.targetDate = NoDate \/ r.status = "Verified" \/ r.status = "Closed" THEN FALSE
        ELSE Date(r.targetDate) < at))

\* InvestigationActionsSummary.overdueCount, with new Date() reading the instant at.
actionsOverdueCount(list, at) ==
  Len(SelectSeq(list, LAMBDA a :
        IF a.dueDate = NoDate \/ a.status = "Complete" \/ a.status = "Closed" THEN FALSE
        ELSE Date(a.dueDate) < at))

\* The inspector's tabs whose controls are handlers of this model.
Tabs == {"details", "notes"}

\* ------------------------------------------------------------ Spec
\* The App right after the load effect found nothing saved, one clock reading later:
\* a fresh investigation (id 1) with its single root node (id 2).
InitFresh ==
  /\ trees = <<defaultTree(1, 2, 0)>>
  /\ activeTreeId = 1
  /\ selectedNodeId = Null
  /\ initialized = TRUE
  /\ activeTab = "details"
  /\ storage = NoStorage
  /\ now = 1
  /\ nextId = 3
  /\ importCandidates = NoCandidates
  /\ checkedMap = <<>>
  /\ conflictMode = "append"
  /\ hasUnsavedChanges = TRUE
  /\ settings = DEFAULT_SETTINGS
  /\ settingsStorage = NoStorage
  /\ pendingSaves = <<[activeTreeId |-> 1, trees |-> <<defaultTree(1, 2, 0)>>]>>
  /\ saveBurst = [changes |-> 1, saves |-> 0]
  /\ currentView = "tree"
  /\ rendered = NoRender
  /\ downloads = {}
  /\ backupTimer = NoTimer
  /\ dirtySince = now
  /\ lastOp = NoOp

\* The ids of the nodes drawn in the tree.
TreeNodeIds ==
  IF hasActiveTree
  THEN {flattenTree(treeData)[i].id : i \in DOMAIN flattenTree(treeData)}
  ELSE {}

\* The tree handlers: the tree view selects a node and adds a child to any node it
\* draws; the inspector deletes the selected node and edits its fields.
TreeNext(maxId) ==
  \/ \E id \in TreeNodeIds : SelectNode(id)
  \/ \E parentId \in TreeNodeIds : nextId <= maxId /\ addChildNode(parentId)
  \/ \E confirmed \in BOOLEAN : hasSelectedNode /\ deleteNode(getSelectedNode.id, confirmed)

\* The inspector's handlers for the status and the notes of the selected node.
InspectorNext ==
  \/ \E tab \in Tabs : SetActiveTab(tab)
  \/ \E newStatus \in NodeStatus : handleStatusChange(newStatus)
  \/ \E checked \in BOOLEAN : RootCauseCheckbox(checked)
  \/ nextId <= MaxIds /\ AddNote
  \/ \E i \in DOMAIN nodeNotes : DeleteNote(i)
  \/ \E i \in DOMAIN nodeNotes : EvidenceCheckbox(i)

Next == TreeNext(MaxIds) \/ EditLabel(EditedLabel) \/ InspectorNext

\* Spec: the status machine, the notes and the tree of a fresh investigation.
Spec == InitFresh /\ [][Next]_vars

NextTree == TreeNext(MaxTreeIds) \/ EditLabel(EditedLabel)

\* SpecTree: the tree of a fresh investigation under add, delete and field edits.
SpecTree == InitFresh /\ [][NextTree]_vars

\* ------------------------------------------------------------ SpecImport
\* The investigations a file on disk may hold: written by another installation
\* (ids 11..16).  One of them is marked resolved, was written by a release that
\* knew no resolutions, and has the name of the default investigation in another
\* spelling; the other two have one name in two spellings.
FileTree(id, name, rootId) ==
  [id |-> id, name |-> name, createdAt |-> 0, updatedAt |-> 0,
   treeData |-> createInitialTree(rootId, name),
   actions |-> <<>>, notes |-> <<>>, resolutions |-> <<>>]

ValidRecords ==
  {Merge(Without(FileTree(11, " NEW Investigation ", 12), "resolutions"), [isResolved |-> TRUE]),
   FileTree(13, "Valve", 14),
   FileTree(15, "valve", 16)}

\* Records parseImportFile refuses: one without treeData; one with a null id and
\* no name.
InvalidRecords ==
  {Without(FileTree(11, "Pump", 12), "treeData"),
   Without([FileTree(15, "Valve", 16) EXCEPT !.id = Null], "name")}

SeqsUpTo(S, n) == UNION {[1..k -> S] : k \in 0..n}

\* The files the file input is given: arrays of valid records, each record at most
\* once, and the file an export of one of the investigations has just downloaded.
ImportFiles ==
  {JsonArray(items) : items \in
     {seq \in SeqsUpTo(ValidRecords, MaxFileLen) :
        \A i, j \in DOMAIN seq : seq[i] = seq[j] => i = j}}
    \cup {exportTreeAsJson(trees[i]) : i \in DOMAIN trees}

NextImport ==
  \/ \E file \in ImportFiles : handleFileSelected(file)
  \/ \E id \in DOMAIN checkedMap : toggleOne(id)
  \/ toggleAll
  \/ \E mode \in {"append", "overwrite"} : setConflictMode(mode)
  \/ onClose
  \/ \E eager \in BOOLEAN : handleConfirm(eager) /\ Len(trees') <= MaxTrees

\* SpecImport: investigations are exported and imported from files.
SpecImport == InitFresh /\ [][NextImport]_vars

\* ------------------------------------------------------------ SpecParse
\* The files of SpecParse: not JSON, one object, or an array, of valid and invalid
\* records.
ParseRecords == {item \in ValidRecords : item.name # "valve"} \cup InvalidRecords

ParseFiles ==
  {Garbage}
    \cup {JsonObject(item) : item \in ParseRecords}
    \cup {JsonArray(items) : items \in SeqsUpTo(ParseRecords, MaxFileLen)}

NextParse ==
  \/ \E id \in TreeNodeIds : importCandidates = NoCandidates /\ SelectNode(id)
  \/ \E parentId \in TreeNodeIds :
       importCandidates = NoCandidates /\ nextId <= MaxIds /\ addChildNode(parentId)
  \/ \E file \in ParseFiles : handleFileSelected(file)
  \/ onClose

\* SpecParse: files of every kind are given to the file input of a fresh App.
SpecParse == InitFresh /\ [][NextParse]_vars

\* ------------------------------------------------------------ SpecLoad
\* The investigations localStorage may hold: one written by a release that knew
\* no resolutions, one that carries resolutions and the id of another project.
StoredTrees ==
  {Without(FileTree(11, "Pump", 12), "resolutions"),
   Merge(FileTree(13, "Valve", 14),
         [resolutions |-> <<[id |-> 15, title |-> "Replace seal", linkedCauseIds |-> <<14>>]>>,
          projectId |-> "other-project"])}

StoredActiveIds == {Null, 11, 13}

\* A version-2 document holding the given investigations.
V2Document(storedTrees, id) ==
  [version |-> 2, activeProjectId |-> DEFAULT_PROJECT_ID, activeTreeId |-> id,
   projects |-> <<[id |-> DEFAULT_PROJECT_ID, name |-> "Default Project",
                   description |-> "Migrated investigations",
                   createdAt |-> 0, updatedAt |-> 0]>>,
   trees |-> storedTrees]

\* What localStorage may hold when the App mounts: nothing, text that is not JSON,
\* JSON that is no object, an object without trees, and documents of both versions.
StorageDocuments ==
  {NoStorage, Garbage, JsonArray(<<>>), JsonObject([activeTreeId |-> Null])}
    \cup {JsonObject([activeTreeId |-> id, trees |-> storedTrees]) :
            id \in StoredActiveIds, storedTrees \in SeqsUpTo(StoredTrees, MaxStoredTrees)}
    \cup {JsonObject(V2Document(storedTrees, id)) :
            id \in StoredActiveIds, storedTrees \in SeqsUpTo(StoredTrees, MaxStoredTrees)}

InitLoad ==
  /\ trees = <<>>
  /\ activeTreeId = Null
  /\ selectedNodeId = Null
  /\ initialized = FALSE
  /\ activeTab = "details"
  /\ storage \in StorageDocuments
  /\ now = 1
  /\ nextId = 1
  /\ importCandidates = NoCandidates
  /\ checkedMap = <<>>
  /\ conflictMode = "append"
  /\ hasUnsavedChanges = FALSE
  /\ settings = DEFAULT_SETTINGS
  /\ settingsStorage = NoStorage
  /\ pendingSaves = <<>>
  /\ saveBurst = [changes |-> 0, saves |-> 0]
  /\ currentView = "tree"
  /\ rendered = NoRender
  /\ downloads = {}
  /\ backupTimer = NoTimer
  /\ dirtySince = now
  /\ lastOp = NoOp

\* The page is reloaded: a new App starts from the initial values of its state
\* hooks; the timeouts of the old page are gone, localStorage stays.
Reload ==
  /\ initialized
  /\ trees' = <<>>
  /\ activeTreeId' = Null
  /\ selectedNodeId' = Null
  /\ initialized' = FALSE
  /\ activeTab' = "details"
  /\ importCandidates' = NoCandidates
  /\ checkedMap' = <<>>
  /\ conflictMode' = "append"
  /\ hasUnsavedChanges' = FALSE
  /\ settings' = DEFAULT_SETTINGS
  /\ pendingSaves' = <<>>
  /\ backupTimer' = NoTimer
  /\ currentView' = "tree"
  /\ rendered' = NoRender
  /\ UNCHANGED <<storage, settingsStorage, now, nextId, saveBurst, dirtySince, downloads, lastOp>>

NextLoad ==
  \/ Mount
  \/ nextId <= MaxLoadIds /\ Reload
  \/ \E id \in TreeNodeIds : SelectNode(id)
  \/ \E parentId \in TreeNodeIds : nextId <= MaxLoadIds /\ addChildNode(parentId)

\* SpecLoad: the App mounts on what localStorage holds, then the tree is edited.
SpecLoad == InitLoad /\ [][NextLoad]_vars

\* ------------------------------------------------------------ SpecSave
\* A first start: nothing is stored and the App has not mounted.
InitInstall ==
  /\ InitLoad
  /\ storage = NoStorage

\* The ids of the investigations of the list.
TreeIds == {trees[i].id : i \in DOMAIN trees}

\* The handlers that give the auto-save effect a new render to save.
Change ==
  \/ \E parentId \in TreeNodeIds : nextId <= MaxSaveIds /\ addChildNode(parentId)
  \/ EditLabel(EditedLabel)
  \/ nextId <= MaxSaveIds /\ Len(trees) < MaxTrees /\ handleCreateTree("Valve")
  \/ \E id \in TreeIds, confirmed \in BOOLEAN : handleDeleteTree(id, confirmed)
  \/ \E id \in TreeIds : onSelectTree(id)

NextSave ==
  \/ Mount
  \/ nextId <= MaxSaveIds /\ Reload
  \/ \E id \in TreeNodeIds : SelectNode(id)
  \/ Change
  \/ saveTimerFires

\* SpecSave: an installation is used, saved by the timer, and reloaded.
SpecSave == InitInstall /\ [][NextSave]_vars

\* The load effect runs once the App has mounted, and a timeout that stays armed
\* fires.
SpecSaveFair == SpecSave /\ WF_vars(Mount) /\ WF_vars(saveTimerFires)

\* ------------------------------------------------------------ SpecBackup
\* What localStorage may hold under SETTINGS_KEY: nothing, text that is not JSON,
\* or the settings of a user who enabled auto-backup.
SettingsDocuments ==
  {NoStorage, Garbage, JsonObject([autoBackupEnabled |-> TRUE])}

\* The App before it mounts, on an installation that holds nothing or one
\* investigation the App saved.
InitBackup ==
  /\ trees = <<>>
  /\ activeTreeId = Null
  /\ selectedNodeId = Null
  /\ initialized = FALSE
  /\ activeTab = "details"
  /\ storage \in {NoStorage, JsonObject([activeTreeId |-> 13, trees |-> <<FileTree(13, "Valve", 14)>>])}
  /\ now = 1
  /\ nextId = 1
  /\ importCandidates = NoCandidates
  /\ checkedMap = <<>>
  /\ conflictMode = "append"
  /\ hasUnsavedChanges = FALSE
  /\ settings = DEFAULT_SETTINGS
  /\ settingsStorage \in SettingsDocuments
  /\ pendingSaves = <<>>
  /\ saveBurst = [changes |-> 0, saves |-> 0]
  /\ currentView = "tree"
  /\ rendered = NoRender
  /\ downloads = {}
  /\ backupTimer = NoTimer
  /\ dirtySince = now
  /\ lastOp = NoOp

\* The most files the model lets the browser download.
MaxDownloads == 2

CanDownload == Cardinality(downloads) < MaxDownloads

NextBackup ==
  \/ Mount
  \/ \E id \in TreeNodeIds : SelectNode(id)
  \/ \E parentId \in TreeNodeIds : nextId <= MaxBackupIds /\ addChildNode(parentId)
  \/ EditLabel(EditedLabel)
  \/ \E enabled \in BOOLEAN :
       handleUpdateSettings([settings EXCEPT !.autoBackupEnabled = enabled])
  \/ CanDownload /\ autoBackupTick
  \/ \E id \in TreeIds : CanDownload /\ handleExportTree(id)
  \/ CanDownload /\ handleExportAll
  \/ CanDownload /\ handleBackupNow

\* SpecBackup: investigations are edited, exported by hand and by the auto-backup.
SpecBackup == InitBackup /\ [][NextBackup]_vars

\* ------------------------------------------------------------ SpecItems
\* The actions and the resolutions of the investigation shown.
actions == IF hasActiveTree THEN activeTree.actions ELSE <<>>
resolutions == IF hasActiveTree THEN resolutionsOf(activeTree) ELSE <<>>

\* The statuses and the dates the model gives to an action and to a resolution.
EditedActionStatus == {"In Progress", "Complete"}
EditedResolutionStatus == {"In Progress", "Verified"}
EditedDates == {2}

NextItems ==
  \/ TreeNext(MaxItemIds)
  \/ EditLabel(EditedLabel)
  \/ \E tab \in Tabs : SetActiveTab(tab)
  \/ nextId <= MaxItemIds /\ AddNote
  \/ \E i \in DOMAIN nodeNotes : DeleteNote(i)
  \/ \E causeId \in TreeNodeIds :
       nextId <= MaxItemIds /\ handleAddAction(newAction(nextId, causeId))
  \/ \E k \in DOMAIN actions, status \in EditedActionStatus :
       handleUpdateAction([actions[k] EXCEPT !.status = status])
  \/ \E k \in DOMAIN actions, date \in EditedDates :
       handleUpdateAction([actions[k] EXCEPT !.dueDate = date])
  \/ \E k \in DOMAIN actions : handleDeleteAction(actions[k].id)
  \/ \E causeId \in TreeNodeIds :
       nextId <= MaxItemIds /\ handleAddResolution(createNewResolution(nextId, causeId))
  \/ \E k \in DOMAIN resolutions, status \in EditedResolutionStatus :
       handleUpdateResolution([resolutions[k] EXCEPT !.status = status])
  \/ \E k \in DOMAIN resolutions, date \in EditedDates :
       handleUpdateResolution([resolutions[k] EXCEPT !.targetDate = date])
  \/ \E k \in DOMAIN resolutions : handleDeleteResolution(resolutions[k].id)
  \/ Tick

\* SpecItems: the tree, the notes, the actions and the resolutions of a fresh
\* investigation are edited while time passes.
SpecItems == InitFresh /\ [][NextItems]_vars

\* ------------------------------------------------------------ SpecViews
\* App, currentView === 'investigate': InvestigationActionsSummary rendered with
\* the actions of the investigation shown.
InvestigationActionsSummary ==
  /\ initialized /\ currentView = "investigate" /\ hasActiveTree
  /\ rendered' = Render("investigate", <<>>, <<>>, <<>>, actionsOverdueCount(actions, now))
  /\ lastOp' = RenderOp("InvestigationActionsSummary")
  /\ UNCHANGED <<appVars, activeTab, storage, now, nextId, importVars, timerVars, settingsVars, currentView, downloads>>

\* App, currentView === 'resolutions': ResolutionsSummary rendered with the
\* resolutions of the investigation shown.
ResolutionsSummary ==
  /\ initialized /\ currentView = "resolutions" /\ hasActiveTree
  /\ rendered' = Render("resolutions", <<>>, <<>>, <<>>, overdueCount(resolutions, now))
  /\ lastOp' = RenderOp("ResolutionsSummary")
  /\ UNCHANGED <<appVars, activeTab, storage, now, nextId, importVars, timerVars, settingsVars, currentView, downloads>>

\* The longest list of actions, and of resolutions, of a drawn investigation.
MaxViewActions == 2
MaxViewResolutions == 1

\* The trees drawn: a root of each status, a pending root with a child of each
\* status, and a tree of four nodes on three levels.
ViewRoot(id, status, children) ==
  [createInitialTree(id, "New Issue") EXCEPT !.status = status, !.children = children]

ViewNode(id, parentId, status, children) ==
  [newCauseNode(id, parentId) EXCEPT !.status = status, !.children = children]

ViewTreeData ==
  {ViewRoot(2, status, <<>>) : status \in NodeStatus}
  \cup {ViewRoot(2, "PENDING", <<ViewNode(3, 2, status, <<>>)>>) : status \in NodeStatus}
  \cup {ViewRoot(2, "PENDING",
                 <<ViewNode(3, 2, "ACTIVE", <<ViewNode(4, 3, "RULED_OUT", <<>>)>>),
                   ViewNode(5, 2, "CONFIRMED", <<>>)>>)}

\* The statuses the status select of a resolution card offers, besides the
\* 'Draft' of a new resolution.
ResolutionStatuses == {"Draft", "In Progress", "Verified", "Closed"}
ViewDates == {NoDate, 1}

ViewActions(date) ==
  {[k \in DOMAIN statuses |->
      [id |-> 6 + k, causeId |-> 2, action |-> "New Action", assignee |-> "Unassigned",
       assignedDate |-> 0, dueDate |-> date, status |-> statuses[k]]] :
   statuses \in SeqsUpTo(ActionStatus, MaxViewActions)}

ViewResolutions(date) ==
  {[k \in DOMAIN statuses |->
      [id |-> 8 + MaxViewActions + k, linkedCauseIds |-> <<2>>, title |-> "New Resolution",
       owner |-> "Unassigned", targetDate |-> date, status |-> statuses[k],
       createdAt |-> 0, updatedAt |-> 0]] :
   statuses \in SeqsUpTo(ResolutionStatuses, MaxViewResolutions)}

\* An investigation of the list: the one a fresh App holds, with a drawn tree,
\* drawn actions and resolutions, and the flag the Resolved toggle stores.
ViewTree(id, data, list, resolved, flag) ==
  Merge([defaultTree(id, 2, 0) EXCEPT !.treeData = data, !.actions = list,
                                     !.resolutions = resolved],
        IF flag = "absent" THEN <<>> ELSE [isResolved |-> flag = "resolved"])

\* Investigations whose statistics vary, and investigations with dated actions
\* or dated resolutions.
StatsTrees ==
  {ViewTree(1, data, list, <<>>, flag) :
     data \in ViewTreeData, list \in ViewActions(NoDate), flag \in {"absent", "resolved"}}

DueTrees ==
  {ViewTree(1, createInitialTree(2, "New Issue"), list, <<>>, "absent") :
     list \in UNION {ViewActions(date) : date \in ViewDates}}
  \cup {ViewTree(1, createInitialTree(2, "New Issue"), <<>>, resolved, "absent") :
          resolved \in UNION {ViewResolutions(date) : date \in ViewDates}}

\* The second investigation of a list of two.
SecondTrees ==
  {ViewTree(20, ViewRoot(21, status, <<>>), list, <<>>, flag) :
     status \in {"PENDING", "ACTIVE"},
     list \in {<<>>, <<[id |-> 22, causeId |-> 21, action |-> "New Action",
                        assignee |-> "Unassigned", assignedDate |-> 0,
                        dueDate |-> NoDate, status |-> "Complete"]>>},
     flag \in {"unresolved", "resolved"}}

FirstTrees == {tree \in StatsTrees : tree.actions = <<>> /\ Len(tree.treeData.children) = 0}

\* An App that has loaded the investigations of one of the lists.
InitViews(lists) ==
  /\ now = 1
  /\ trees \in lists
  /\ activeTreeId = 1
  /\ selectedNodeId = Null
  /\ initialized = TRUE
  /\ activeTab = "details"
  /\ storage = NoStorage
  /\ nextId = 30
  /\ importCandidates = NoCandidates
  /\ checkedMap = <<>>
  /\ conflictMode = "append"
  /\ hasUnsavedChanges = FALSE
  /\ settings = DEFAULT_SETTINGS
  /\ settingsStorage = NoStorage
  /\ pendingSaves = <<>>
  /\ saveBurst = [changes |-> 0, saves |-> 0]
  /\ currentView = "tree"
  /\ rendered = NoRender
  /\ downloads = {}
  /\ backupTimer = NoTimer
  /\ dirtySince = now
  /\ lastOp = NoOp

InitDashboard ==
  InitViews({<<tree>> : tree \in StatsTrees}
            \cup {<<first, second>> : first \in FirstTrees, second \in SecondTrees})

NextDashboard ==
  \/ \E view \in {"tree", "dashboard"} : setCurrentView(view)
  \/ DashboardView
  \/ \E id \in TreeIds : handleDashboardSelectTree(id)
  \/ \E id \in TreeIds : currentView = "dashboard" /\ handleToggleResolved(id)

\* SpecDashboard: the dashboard is rendered for drawn investigations, a card
\* is opened, and the Resolved flag is toggled.
SpecDashboard == InitDashboard /\ [][NextDashboard]_vars

InitSummaries == InitViews({<<tree>> : tree \in DueTrees})

NextSummaries ==
  \/ \E view \in {"investigate", "resolutions"} : setCurrentView(view)
  \/ InvestigationActionsSummary
  \/ ResolutionsSummary
  \/ \E k \in DOMAIN actions :
       currentView = "investigate"
       /\ handleUpdateAction([actions[k] EXCEPT !.status = "Complete"])
  \/ \E k \in DOMAIN resolutions :
       currentView = "resolutions"
       /\ handleUpdateResolution([resolutions[k] EXCEPT !.status = "Verified"])
  \/ Tick

\* SpecSummaries: the two summaries are rendered for drawn actions and
\* resolutions while time passes, an action is completed and a resolution is
\* verified.
SpecSummaries == InitSummaries /\ [][NextSummaries]_vars

\* ------------------------------------------------------------ SpecResolutions
\* App: allRootCauses = allNodes.filter(n => n.isRootCause === true)
allRootCauses ==
  IF hasActiveTree THEN SelectSeq(flattenTree(treeData), LAMBDA n : n.isRootCause) ELSE <<>>

\* InspectorPanel: isRootCauseNode and nodeResolutions of the selected node.
isRootCauseNode ==
  hasSelectedNode /\ getSelectedNode.status = "CONFIRMED" /\ getSelectedNode.isRootCause

nodeResolutions ==
  IF hasSelectedNode
  THEN SelectSeq(resolutions, LAMBDA r : \E k \in DOMAIN r.linkedCauseIds :
                                           r.linkedCauseIds[k] = getSelectedNode.id)
  ELSE <<>>

\* linkedCauseIds.includes(id)
includes(list, id) == \E k \in DOMAIN list : list[k] = id

\* A click on a link checkbox that did not call onUpdateResolution.
LinkOp(resolution, rcId) == Op("linkCheckbox", resolution.id, "", "", FALSE)

\* A link checkbox that is never disabled and updates whatever the new list is.
onLinkChangeUnguarded(resolution, rcId) ==
  LET newLinked == IF ~includes(resolution.linkedCauseIds, rcId)
                   THEN Append(resolution.linkedCauseIds, rcId)
                   ELSE SelectSeq(resolution.linkedCauseIds, LAMBDA id : id # rcId)
  IN handleUpdateResolution([resolution EXCEPT !.linkedCauseIds = newLinked])

\* The link checkbox of a root cause on a resolution card, clicked: a disabled
\* checkbox (the only link of the resolution) does nothing; otherwise onChange
\* runs with e.target.checked the opposite of what is shown.
onLinkChange(resolution, rcId) ==
  LET disabled == Len(resolution.linkedCauseIds) = 1 /\ resolution.linkedCauseIds[1] = rcId
      checked == ~includes(resolution.linkedCauseIds, rcId)
      newLinked == IF checked
                   THEN Append(resolution.linkedCauseIds, rcId)
                   ELSE SelectSeq(resolution.linkedCauseIds, LAMBDA id : id # rcId)
  IN IF ~disabled /\ Len(newLinked) > 0
     THEN handleUpdateResolution([resolution EXCEPT !.linkedCauseIds = newLinked])
     ELSE /\ initialized /\ hasActiveTree
          /\ lastOp' = LinkOp(resolution, rcId)
          /\ UNCHANGED <<appVars, activeTab, storage, now, nextId, importVars, timerVars,
                         settingsVars, viewVars, downloads>>

\* InspectorPanel, Corrective tab of a root cause: the link checkboxes of a card
\* are drawn when there is more than one root cause.
InspectorLinkCheckbox(k, rcId) ==
  /\ currentView = "tree" /\ activeTab = "resolutions" /\ isRootCauseNode
  /\ k \in DOMAIN nodeResolutions
  /\ Len(allRootCauses) > 1
  /\ \E j \in DOMAIN allRootCauses : allRootCauses[j].id = rcId
  /\ onLinkChange(nodeResolutions[k], rcId)

\* ResolutionsSummary: the link checkboxes of a card are drawn when there is a
\* root cause.
SummaryLinkCheckbox(k, rcId) ==
  /\ currentView = "resolutions"
  /\ k \in DOMAIN resolutions
  /\ Len(allRootCauses) > 0
  /\ \E j \in DOMAIN allRootCauses : allRootCauses[j].id = rcId
  /\ onLinkChange(resolutions[k], rcId)

\* InspectorPanel, Corrective tab: the Add button, onAddResolution(createNewResolution()).
InspectorAddResolution ==
  /\ currentView = "tree" /\ activeTab = "resolutions" /\ isRootCauseNode
  /\ handleAddResolution(createNewResolution(nextId, getSelectedNode.id))

\* ResolutionsSummary.createNewResolution: linked to the first root cause.
summaryCreateNewResolution(id) ==
  [createNewResolution(id, Null) EXCEPT
     !.linkedCauseIds = IF Len(allRootCauses) > 0 THEN <<allRootCauses[1].id>> ELSE <<>>]

\* ResolutionsSummary: the Add button, disabled while there is no root cause.
SummaryAddResolution ==
  /\ currentView = "resolutions"
  /\ Len(allRootCauses) # 0
  /\ handleAddResolution(summaryCreateNewResolution(nextId))

\* The largest id a node, and a resolution, is given.
MaxCauseIds == 3
MaxResolutionIds == 4

NextResolutions ==
  \/ \E view \in {"tree", "resolutions"} : hasActiveTree /\ setCurrentView(view)
  \/ \E id \in TreeNodeIds : currentView = "tree" /\ SelectNode(id)
  \/ \E parentId \in TreeNodeIds :
       currentView = "tree" /\ nextId <= MaxCauseIds /\ addChildNode(parentId)
  \/ currentView = "tree" /\ hasSelectedNode /\ deleteNode(getSelectedNode.id, TRUE)
  \/ \E tab \in {"details", "resolutions"} : currentView = "tree" /\ SetActiveTab(tab)
  \/ \E newStatus \in {"ACTIVE", "CONFIRMED"} :
       currentView = "tree" /\ handleStatusChange(newStatus)
  \/ \E checked \in BOOLEAN : currentView = "tree" /\ RootCauseCheckbox(checked)
  \/ nextId <= MaxResolutionIds /\ InspectorAddResolution
  \/ nextId <= MaxResolutionIds /\ SummaryAddResolution
  \/ \E k \in DOMAIN nodeResolutions, rcId \in TreeNodeIds : InspectorLinkCheckbox(k, rcId)
  \/ \E k \in DOMAIN resolutions, rcId \in TreeNodeIds : SummaryLinkCheckbox(k, rcId)
  \/ \E k \in DOMAIN resolutions :
       currentView = "resolutions" /\ handleDeleteResolution(resolutions[k].id)

\* SpecResolutions: root causes are confirmed, marked, demoted and deleted, and
\* resolutions are created, linked, unlinked and deleted in the inspector and
\* in the resolutions summary.
SpecResolutions == InitFresh /\ [][NextResolutions]_vars

\* ------------------------------------------------------------ SpecNodes
\* The node handleUpdateNode is given: a node of the tree with its label
\* edited, a node of the tree without its children, or a node with an id that
\* no node of the tree has.
UpdateKinds == {"label", "children", "absent"}

updatedNodeOf(kind, id) ==
  IF kind = "absent" THEN [newCauseNode(id, treeData.id) EXCEPT !.label = EditedLabel]
  ELSE IF kind = "label" THEN [findNode(treeData, id) EXCEPT !.label = EditedLabel]
  ELSE [findNode(treeData, id) EXCEPT !.children = <<>>]

\* App.handleUpdateNode(updatedNode), the onUpdateNode of the inspector.
onUpdateNode(kind, id) ==
  /\ initialized /\ hasActiveTree
  /\ (kind = "absent") = (id \notin TreeNodeIds)
  /\ handleUpdateNode(updatedNodeOf(kind, id))
  /\ lastOp' = Op("handleUpdateNode", id, kind, "", FALSE)
  /\ UNCHANGED <<activeTreeId, selectedNodeId, initialized, activeTab, storage, importVars, now, nextId, settingsVars, viewVars, downloads>>
  /\ useEffects(TRUE)

\* The largest id a node is given, and the ids a handler may be called with.
MaxNodeIds == 5
NodeIds == 2..(MaxNodeIds + 1)

NextNodes ==
  \/ \E parentId \in NodeIds \ {nextId} : nextId <= MaxNodeIds /\ addChildNode(parentId)
  \/ \E id \in TreeNodeIds : deleteNode(id, TRUE)
  \/ \E kind \in UpdateKinds, id \in NodeIds : onUpdateNode(kind, id)

\* SpecNodes: children are added under nodes that are and that are not in the
\* tree, nodes are deleted, and nodes are replaced by handleUpdateNode.
SpecNodes == InitFresh /\ [][NextNodes]_vars

\* ------------------------------------------------------------ SpecCollections
\* InspectorPanel: the textarea of a note:
\* onDeleteNote(note.id); onAddNote({...note, content: e.target.value})
NoteContentEdit(i, text) ==
  /\ initialized /\ hasSelectedNode /\ activeTab = "notes"
  /\ i \in DOMAIN nodeNotes
  /\ LET note == nodeNotes[i]
         updated == [note EXCEPT !.content = text]
         updater(tree) ==
           [tree EXCEPT !.notes = addNote(deleteNoteById(tree.notes, note.id), updated)]
     IN updateActiveTree([t \in DOMAIN trees |-> updater(trees[t])])
  /\ lastOp' = OtherOp
  /\ UNCHANGED <<activeTreeId, selectedNodeId, initialized, activeTab, storage, importVars, now, nextId, settingsVars, viewVars, downloads>>
  /\ useEffects(TRUE)

\* The largest id an action, a note or a resolution is given.
MaxCollectionIds == 5

NextCollections ==
  \/ \E id \in TreeNodeIds : SelectNode(id)
  \/ \E tab \in Tabs : SetActiveTab(tab)
  \/ nextId <= MaxCollectionIds /\ AddNote
  \/ \E i \in DOMAIN nodeNotes : DeleteNote(i)
  \/ \E i \in DOMAIN nodeNotes : EvidenceCheckbox(i)
  \/ \E i \in DOMAIN nodeNotes : NoteContentEdit(i, EditedLabel)
  \/ \E causeId \in TreeNodeIds :
       nextId <= MaxCollectionIds /\ handleAddAction(newAction(nextId, causeId))
  \/ \E k \in DOMAIN actions, status \in EditedActionStatus :
       handleUpdateAction([actions[k] EXCEPT !.status = status])
  \/ \E k \in DOMAIN actions : handleDeleteAction(actions[k].id)
  \/ \E causeId \in TreeNodeIds :
       nextId <= MaxCollectionIds
       /\ handleAddResolution(createNewResolution(nextId, causeId))
  \/ \E k \in DOMAIN resolutions, status \in EditedResolutionStatus :
       handleUpdateResolution([resolutions[k] EXCEPT !.status = status])
  \/ \E k \in DOMAIN resolutions : handleDeleteResolution(resolutions[k].id)

\* SpecCollections: up to three actions, notes and resolutions of a fresh
\* investigation are added, edited and removed.
SpecCollections == InitFresh /\ [][NextCollections]_vars

\* ------------------------------------------------------------ SpecCascade
\* The largest id a node, an item or an investigation is given.
MaxCascadeIds == 9

NextCascade ==
  \/ \E id \in TreeNodeIds : SelectNode(id)
  \/ \E parentId \in TreeNodeIds : nextId <= MaxCauseIds /\ addChildNode(parentId)
  \/ \E confirmed \in BOOLEAN : hasSelectedNode /\ deleteNode(getSelectedNode.id, confirmed)
  \/ SetActiveTab("notes")
  \/ nextId <= MaxCascadeIds - 3 /\ Len(notes) = 0 /\ AddNote
  \/ \E causeId \in TreeNodeIds :
       nextId <= MaxCascadeIds - 3 /\ Len(actions) = 0
       /\ handleAddAction(newAction(nextId, causeId))
  \/ \E causeId \in TreeNodeIds :
       nextId <= MaxCascadeIds - 3 /\ Len(resolutions) = 0
       /\ handleAddResolution(createNewResolution(nextId, causeId))
  \/ nextId < MaxCascadeIds /\ Len(trees) < MaxTrees /\ handleCreateTree("Valve")
  \/ \E id \in TreeIds : onSelectTree(id)

\* SpecCascade: nodes that actions, notes and resolutions refer to are deleted,
\* with a second investigation in the list.
SpecCascade == InitFresh /\ [][NextCascade]_vars

\* ------------------------------------------------------------ SpecExports
\* The App before it mounts on an installation that holds two investigations;
\* auto-backup is enabled or not.
InitExports ==
  /\ trees = <<>>
  /\ activeTreeId = Null
  /\ selectedNodeId = Null
  /\ initialized = FALSE
  /\ activeTab = "details"
  /\ storage = JsonObject([activeTreeId |-> 11,
                           trees |-> <<FileTree(11, "Pump", 12), FileTree(13, "Valve", 14)>>])
  /\ now = 1
  /\ nextId = 1
  /\ importCandidates = NoCandidates
  /\ checkedMap = <<>>
  /\ conflictMode = "append"
  /\ hasUnsavedChanges = FALSE
  /\ settings = DEFAULT_SETTINGS
  /\ settingsStorage \in SettingsDocuments
  /\ pendingSaves = <<>>
  /\ saveBurst = [changes |-> 0, saves |-> 0]
  /\ currentView = "tree"
  /\ rendered = NoRender
  /\ downloads = {}
  /\ backupTimer = NoTimer
  /\ dirtySince = now
  /\ lastOp = NoOp

\* The most ids the model hands out while two investigations are edited.
MaxExportIds == 2

NextExports ==
  \/ Mount
  \/ \E id \in TreeIds : onSelectTree(id)
  \/ \E parentId \in TreeNodeIds : nextId <= MaxExportIds /\ addChildNode(parentId)
  \/ \E enabled \in BOOLEAN :
       handleUpdateSettings([settings EXCEPT !.autoBackupEnabled = enabled])
  \/ CanDownload /\ autoBackupTick
  \/ \E id \in TreeIds : CanDownload /\ handleExportTree(id)
  \/ CanDownload /\ handleExportAll
  \/ CanDownload /\ handleBackupNow

\* SpecExports: two investigations are edited in turn and exported, one at a time
\* or all at once, by hand and by the auto-backup.
SpecExports == InitExports /\ [][NextExports]_vars

\* ------------------------------------------------------------ SpecInterval
\* The App before it mounts, for a user who enabled auto-backup every 10 minutes;
\* the clock starts at 0 and one tick is MinutesPerTick minutes.
InitInterval ==
  /\ trees = <<>>
  /\ activeTreeId = Null
  /\ selectedNodeId = Null
  /\ initialized = FALSE
  /\ activeTab = "details"
  /\ storage = NoStorage
  /\ now = 0
  /\ nextId = 1
  /\ importCandidates = NoCandidates
  /\ checkedMap = <<>>
  /\ conflictMode = "append"
  /\ hasUnsavedChanges = FALSE
  /\ settings = DEFAULT_SETTINGS
  /\ settingsStorage = JsonObject([autoBackupEnabled |-> TRUE, autoBackupIntervalMinutes |-> 10])
  /\ pendingSaves = <<>>
  /\ saveBurst = [changes |-> 0, saves |-> 0]
  /\ currentView = "tree"
  /\ rendered = NoRender
  /\ downloads = {}
  /\ backupTimer = NoTimer
  /\ dirtySince = now
  /\ lastOp = NoOp

\* The interval is running and its period has passed since it was armed or fired.
IntervalDue ==
  backupTimer # NoTimer /\ now >= backupTimer + intervalMs(settings)

\* The browser runs the callback of the interval when its period has passed.
intervalFires == IntervalDue /\ autoBackupTick

\* The most ids the model hands out while the interval runs.
MaxIntervalIds == 4

\* The clock advances only while no callback is due.
NextInterval ==
  \/ Mount
  \/ \E parentId \in TreeNodeIds : nextId <= MaxIntervalIds /\ addChildNode(parentId)
  \/ handleExportAll
  \/ intervalFires
  \/ ~IntervalDue /\ Tick

\* SpecInterval: an investigation is edited and exported while time passes and
\* the auto-backup interval runs.
SpecInterval == InitInterval /\ [][NextInterval]_vars

\* ------------------------------------------------------------ properties
Range(seq) == {seq[i] : i \in DOMAIN seq}

\* The nodes of a tree, and the nodes of the subtree below the node with a given id.
RECURSIVE NodeSet(_)
NodeSet(node) == {node} \cup UNION {NodeSet(child) : child \in Range(node.children)}

SubtreeOf(root, id) == UNION {NodeSet(n) : n \in {m \in NodeSet(root) : m.id = id}}

IdsOf(nodes) == {n.id : n \in nodes}
ChildIds(node) == [i \in DOMAIN node.children |-> node.children[i].id]

\* A node's own fields, its children left aside.
Fields(node) ==
  [id |-> node.id, parentId |-> node.parentId, label |-> node.label,
   status |-> node.status, type |-> node.type, isRootCause |-> node.isRootCause]

\* Some note of the investigation refers to the node and is flagged as evidence.
EvidenceFor(tree, id) ==
  \E i \in DOMAIN tree.notes : tree.notes[i].referenceId = id /\ tree.notes[i].isEvidence

RootCauseOnlyWhenConfirmed ==
  \A i \in DOMAIN trees : \A n \in NodeSet(trees[i].treeData) :
    n.isRootCause => n.status = "CONFIRMED"

\* C2 (root-cause flag): in every state every node flagged as root cause is
\* CONFIRMED; a step that takes a CONFIRMED root cause to another status leaves
\* its flag false; a step that sets the flag starts and ends with the node CONFIRMED.
C2_RootCauseFlag ==
  /\ []RootCauseOnlyWhenConfirmed
  /\ [][\A n \in NodeSet(treeData), m \in NodeSet(treeData') : m.id = n.id =>
          /\ (n.status = "CONFIRMED" /\ n.isRootCause /\ m.status # "CONFIRMED")
               => ~m.isRootCause
          /\ (~n.isRootCause /\ m.isRootCause)
               => (n.status = "CONFIRMED" /\ m.status = "CONFIRMED")]_vars

\* C2 witness: a status change took a flagged root cause to RULED_OUT.
C2_Witness ==
  /\ lastOp.op = "handleStatusChange" /\ lastOp.arg = "RULED_OUT"
  /\ lastOp.message = "" /\ lastOp.wasRootCause
  /\ \E n \in NodeSet(treeData) :
       n.id = selectedNodeId /\ n.status = "RULED_OUT" /\ ~n.isRootCause

RECURSIVE ParentLinksOk(_)
ParentLinksOk(node) ==
  \A child \in Range(node.children) : child.parentId = node.id /\ ParentLinksOk(child)

\* C3 (tree integrity): in every investigation exactly one node has type ISSUE and
\* parentId null, and it is the root; every other node's parentId is the id of the
\* node whose children hold it; the ids of the nodes are pairwise distinct.
C3_TreeIntegrity ==
  \A i \in DOMAIN trees :
    LET root == trees[i].treeData
        flat == flattenTree(root)
    IN /\ {k \in DOMAIN flat : flat[k].type = "ISSUE" /\ flat[k].parentId = Null} = {1}
       /\ \A k \in DOMAIN flat : k # 1 => flat[k].parentId # Null
       /\ ParentLinksOk(root)
       /\ \A k, l \in DOMAIN flat : flat[k].id = flat[l].id => k = l

\* C3 witness: after adds, a field edit and a delete the tree still has a node
\* two levels below the root.
C3_Witness ==
  /\ lastOp.op = "deleteNode" /\ lastOp.arg = "confirmed"
  /\ \E n \in NodeSet(treeData) :
       /\ n.parentId # Null /\ n.parentId # treeData.id
       /\ n.label = EditedLabel

\* C4 (delete cascades): a confirmed deleteNode(X) for a non-root node X leaves
\* exactly the nodes that are neither X nor below X; each of them keeps its fields
\* and its parent, and its children are its old children without X, in the old order.
C4_DeleteCascades ==
  [][(/\ lastOp'.op = "deleteNode" /\ lastOp'.arg = "confirmed"
      /\ lastOp'.node \in IdsOf(NodeSet(treeData)) \ {treeData.id}) =>
       LET X == lastOp'.node
           gone == IdsOf(SubtreeOf(treeData, X))
       IN /\ IdsOf(NodeSet(treeData')) = IdsOf(NodeSet(treeData)) \ gone
          /\ \A n \in NodeSet(treeData) : n.id \notin gone =>
               \E m \in NodeSet(treeData') :
                 /\ Fields(m) = Fields(n)
                 /\ ChildIds(m) = SelectSeq(ChildIds(n), LAMBDA c : c # X)
          /\ Cardinality(NodeSet(treeData')) = Cardinality(NodeSet(treeData)) - Cardinality(gone)
    ]_vars

\* C4 witness: a node that had children was deleted and another subtree remains.
C4_Witness ==
  /\ lastOp.op = "deleteNode" /\ lastOp.arg = "confirmed"
  /\ lastOp.message = "Delete \"New Cause\" and its 1 child node(s)?"
  /\ Cardinality(NodeSet(treeData)) >= 2

\* C5 (root deletion guard): deleteNode called with the id of the root changes no
\* investigation (tree, actions, notes, resolutions, updatedAt), keeps the selection
\* and the active investigation, and alerts that the root cannot be deleted.
C5_RootDeletionGuard ==
  [][(lastOp'.op = "deleteNode" /\ lastOp'.node = treeData.id) =>
       /\ trees' = trees
       /\ selectedNodeId' = selectedNodeId
       /\ activeTreeId' = activeTreeId
       /\ lastOp'.message = CannotDeleteRoot]_vars

\* C5 witness: deleting the root of a tree that has other nodes was refused.
C5_Witness ==
  /\ lastOp.op = "deleteNode" /\ lastOp.node = treeData.id
  /\ lastOp.message = CannotDeleteRoot
  /\ selectedNodeId = treeData.id
  /\ Cardinality(NodeSet(treeData)) >= 3
\* The records of a file, a file that is one object holding one record.
RecordsOf(file) == IF file.type = "array" THEN file.items ELSE <<file.item>>

\* A record lacks a non-empty treeData, id or name.
LacksRequiredField(item) ==
  \E field \in {"treeData", "id", "name"} :
    \/ field \notin DOMAIN item
    \/ field = "treeData" /\ item.treeData = NoNode
    \/ field = "id" /\ item.id = Null
    \/ field = "name" /\ item.name = ""

Selected == SelectSeq(importCandidates, LAMBDA t : checkedMap[t.id])

\* Two investigations agree on every field outside the given ones.
SameExcept(a, b, fields) ==
  /\ DOMAIN a \ fields = DOMAIN b \ fields
  /\ \A k \in DOMAIN a \ fields : a[k] = b[k]

ExistingNames == {normalizedName(trees[i].name) : i \in DOMAIN trees}
ExistingIds == {trees[i].id : i \in DOMAIN trees}

C8_MatchPreExisting ==
  [][(lastOp'.op = "handleImportConfirm" /\ conflictMode = "overwrite") =>
       Len(trees') = Len(trees)
                       + Cardinality({k \in DOMAIN Selected : Selected[k].id \notin conflicts})]_vars

\* The import dialog shows the candidates parseImportFile makes of the export of
\* the i-th investigation.
IsReimportOf(i) ==
  LET parsed == parseImportFile(exportTreeAsJson(trees[i]))
  IN parsed.ok /\ importCandidates = parsed.value

\* Selecting the file an export of an investigation has written opens the import
\* dialog on that investigation alone, every field as it is.
ExportThenSelect ==
  [][\A i \in DOMAIN trees :
       (lastOp'.op = "handleFileSelected" /\ lastOp'.file = exportTreeAsJson(trees[i]))
         => importCandidates' = <<trees[i]>>]_vars

\* C9 as stated (export/import round trip): importing the export of an investigation
\* T yields an investigation equal to T in every field but the id.
C9_RoundTripAsStated ==
  /\ ExportThenSelect
  /\ [][\A i \in DOMAIN trees :
          (lastOp'.op = "handleImportConfirm" /\ IsReimportOf(i)) =>
            \E j \in DOMAIN trees' :
              /\ trees'[j].id = lastOp'.node
              /\ SameExcept(trees'[j], trees[i], {"id"})]_vars

\* C9 (export/import round trip, amended): importing the export of an investigation
\* T in append mode adds an investigation equal to T in every field but the id,
\* which is new, and leaves the others as they are; in overwrite mode it replaces
\* the first investigation whose normalized name is that of T, which keeps its id
\* and ends equal to T in every field but the id and updatedAt, updatedAt being the
\* time of the import.
C9_RoundTrip ==
  /\ ExportThenSelect
  /\ [][\A i \in DOMAIN trees :
          (lastOp'.op = "handleImportConfirm" /\ IsReimportOf(i)) =>
            IF conflictMode = "append"
            THEN /\ Len(trees') = Len(trees) + 1
                 /\ \A j \in DOMAIN trees : trees'[j] = trees[j]
                 /\ SameExcept(trees'[Len(trees')], trees[i], {"id"})
                 /\ trees'[Len(trees')].id \notin ExistingIds
                 /\ lastOp'.node = trees'[Len(trees')].id
            ELSE LET j == findIndexByName(trees, trees[i].name)
                 IN /\ Len(trees') = Len(trees)
                    /\ \A l \in DOMAIN trees : l # j => trees'[l] = trees[l]
                    /\ trees'[j].id = trees[j].id
                    /\ lastOp'.node = trees[j].id
                    /\ SameExcept(trees'[j], trees[i], {"id", "updatedAt"})
                    /\ trees'[j].updatedAt = now]_vars

\* C9 witness: the export of the default investigation was imported in overwrite
\* mode: it is as it was created but for updatedAt.
C9_Witness ==
  /\ lastOp.op = "handleImportConfirm" /\ lastOp.arg = "overwrite"
  /\ trees = <<[defaultTree(1, 2, 0) EXCEPT !.updatedAt = now]>>
  /\ now # 0
\* C10 (v1 -> v2 migration): when localStorage holds an object without a version
\* field whose trees is a list, loadAppState returns a state of version 2 with the
\* one project "default-project" named "Default Project" as the active project, the
\* activeTreeId of the document, and the document's investigations in their order,
\* each with projectId "default-project", with resolutions [] where it had none,
\* and every other field as stored; localStorage holds that state when it returns.
C10_MigrationV1toV2 ==
  [][(/\ lastOp'.op = "loadAppState"
      /\ storage.type = "object"
      /\ "version" \notin DOMAIN storage.item
      /\ "trees" \in DOMAIN storage.item)
     => LET document == storage.item
            returned == lastOp'.result
        IN /\ returned # NoState
           /\ DOMAIN returned =
                {"version", "activeProjectId", "activeTreeId", "projects", "trees"}
           /\ returned.version = 2
           /\ Len(returned.projects) = 1
           /\ returned.projects[1].id = "default-project"
           /\ returned.projects[1].name = "Default Project"
           /\ returned.activeProjectId = "default-project"
           /\ returned.activeTreeId = document.activeTreeId
           /\ Len(returned.trees) = Len(document.trees)
           /\ \A i \in DOMAIN document.trees :
                /\ {"projectId", "resolutions"} \subseteq DOMAIN returned.trees[i]
                /\ returned.trees[i].projectId = "default-project"
                /\ returned.trees[i].resolutions =
                     IF "resolutions" \in DOMAIN document.trees[i]
                     THEN document.trees[i].resolutions ELSE <<>>
                /\ SameExcept(returned.trees[i], document.trees[i],
                              {"projectId", "resolutions"})
           /\ storage' = JsonObject(returned)]_vars

\* C10 witness: a document without version that held two investigations, the first
\* without resolutions, the second assigned to another project, was migrated; the
\* App shows the migrated investigations and localStorage holds version 2.
C10_Witness ==
  /\ lastOp.op = "loadAppState" /\ lastOp.arg = "v1"
  /\ initialized
  /\ Len(trees) = 2
  /\ trees[1].id = 11 /\ trees[1].resolutions = <<>>
  /\ trees[2].id = 13 /\ trees[2].resolutions # <<>>
  /\ trees[2].projectId = "default-project"
  /\ storage.type = "object" /\ storage.item.version = 2
  /\ storage.item.trees = trees

\* A stored document of version 2: an object with a version field and a trees list.
IsV2Document(raw) ==
  raw.type = "object" /\ {"version", "trees"} \subseteq DOMAIN raw.item

\* A stored document of version 1: an object with a trees list and no version field.
IsV1Document(raw) ==
  raw.type = "object" /\ "trees" \in DOMAIN raw.item /\ "version" \notin DOMAIN raw.item

\* The investigation with resolutions [] when it has none.
Backfilled(tree) ==
  IF "resolutions" \in DOMAIN tree THEN tree ELSE Merge(tree, [resolutions |-> <<>>])

\* C11 (migration idempotence): loadAppState on a stored document of version 2
\* leaves localStorage as it is and returns the document, every field and every
\* investigation as stored but for resolutions [] where an investigation had none;
\* a load that follows the load of a version-1 document, nothing else having run
\* in between, returns the state the first load returned and writes nothing.
C11_MigrationIdempotent ==
  /\ [][(lastOp'.op = "loadAppState" /\ ~initialized /\ IsV2Document(storage))
        => /\ storage' = storage
           /\ lastOp'.result =
                [storage.item EXCEPT
                   !.trees = [i \in DOMAIN storage.item.trees |->
                                Backfilled(storage.item.trees[i])]]]_vars
  /\ [][(/\ lastOp.op = "loadAppState" /\ lastOp.arg = "v1"
         /\ lastOp'.op = "loadAppState" /\ ~initialized)
        => /\ lastOp'.result = lastOp.result
           /\ storage' = storage]_vars

\* C11 witness: the document a migration wrote (its project is stamped with the
\* time of the migration) was loaded again: two investigations, the first with the
\* resolutions [] it was given, each in the default project.
C11_Witness ==
  /\ lastOp.op = "loadAppState" /\ lastOp.arg = "v2"
  /\ initialized
  /\ lastOp.result.projects[1].createdAt = now
  /\ Len(trees) = 2
  /\ trees[1].resolutions = <<>>
  /\ trees[2].projectId = "default-project"
  /\ storage = JsonObject(lastOp.result)

\* What saveAppState writes for the state the App shows.
Persisted == JsonObject([activeTreeId |-> activeTreeId, trees |-> trees])

\* C12 (debounce collapse): however many changes follow one another while a save
\* is pending, at most one timeout is armed, it holds the state after the last
\* change, and the run of changes ends in exactly one saveAppState call, which
\* writes the state the App shows and leaves no save pending.
C12_DebounceCollapse ==
  /\ [](Len(pendingSaves) <= 1)
  /\ [](pendingSaves # <<>> =>
          pendingSaves[1] = [activeTreeId |-> activeTreeId, trees |-> trees])
  /\ [](saveBurst.saves <= 1)
  /\ []((initialized /\ pendingSaves = <<>>) => saveBurst.saves = 1)
  /\ [][(lastOp'.op = "saveAppState" /\ initialized')
         => /\ storage' = Persisted
            /\ pendingSaves' = <<>>]_vars

\* C12 witness: three or more changes followed one another while a save was
\* pending, and one save has written the last state: two investigations, the
\* root of the second relabelled.
C12_Witness ==
  /\ lastOp.op = "saveAppState"
  /\ saveBurst = [changes |-> MaxBurst, saves |-> 1]
  /\ pendingSaves = <<>>
  /\ Len(trees) = 2 /\ trees[2].treeData.label = EditedLabel
  /\ storage = Persisted

\* The App shows a non-empty list and localStorage holds what it shows.
InSync == initialized /\ Len(trees) > 0 /\ storage = Persisted

\* C13 (debounced persistence is eventually consistent): when from some point on no
\* handler changes what the auto-save effect depends on and the page is not
\* reloaded, then from some point on localStorage holds the activeTreeId and the
\* trees the App shows; and whenever the timeout fires it writes the activeTreeId
\* and the trees the App shows at that moment.
C13_EventuallyPersisted ==
  /\ (<>[][~Change /\ ~Mount /\ ~Reload]_vars) => <>[]InSync
  /\ [][(lastOp'.op = "saveAppState" /\ initialized')
         => /\ storage'.item.activeTreeId = activeTreeId
            /\ storage'.item.trees = trees]_vars

\* C13 witness: the timer has saved an installation that was reloaded, given a
\* second investigation and saved again; localStorage holds what the App shows.
C13_Witness ==
  /\ InSync
  /\ lastOp.op = "saveAppState"
  /\ pendingSaves = <<>>
  /\ Len(trees) = 2
  /\ "projectId" \in DOMAIN trees[1]

\* The handler that ran last downloaded a file.
Exported(op) ==
  /\ op.op \in {"autoBackup", "handleExportTree", "handleExportAll", "handleBackupNow"}
  /\ op.arg = "export"

\* C14 (auto-export only when dirty): a mutation of the investigations sets
\* hasUnsavedChanges and an export clears it; a tick of the auto-backup interval
\* exports exactly when the flag is set; a tick that directly follows an export or
\* the load of the state, no mutation in between, exports nothing.
C14_AutoExportOnlyWhenDirty ==
  /\ [][lastOp'.op = "addChildNode" => hasUnsavedChanges']_vars
  /\ [][Exported(lastOp') => ~hasUnsavedChanges']_vars
  /\ [][lastOp'.op = "autoBackup" =>
          (lastOp'.arg = "export" <=> hasUnsavedChanges)]_vars
  /\ [][(lastOp'.op = "autoBackup" /\ (Exported(lastOp) \/ lastOp.op = "loadAppState"))
         => lastOp'.arg = "skip"]_vars

\* What an investigation contains: its tree and its three collections.
ContentOf(tree) ==
  [treeData |-> tree.treeData, actions |-> tree.actions, notes |-> tree.notes,
   resolutions |-> resolutionsOf(tree)]

\* The handlers of the actions and the resolutions, and addChildNode.
StampingOps ==
  {"addChildNode", "handleAddAction", "handleUpdateAction", "handleDeleteAction",
   "handleAddResolution", "handleUpdateResolution", "handleDeleteResolution"}

\* C15 (updatedAt refresh): a step that changes the tree, the actions, the notes or
\* the resolutions of an investigation leaves its updatedAt at the time of the
\* step; so does every add child, confirmed delete of a node, and add, update or
\* delete of an action or a resolution, for the investigation shown; updatedAt
\* never decreases and is never later than the clock.
C15_UpdatedAtRefresh ==
  /\ [][\A i \in DOMAIN trees, j \in DOMAIN trees' :
          trees'[j].id = trees[i].id =>
            /\ ContentOf(trees'[j]) # ContentOf(trees[i]) => trees'[j].updatedAt = now
            /\ trees'[j].updatedAt >= trees[i].updatedAt]_vars
  /\ [][(\/ lastOp'.op \in StampingOps
         \/ lastOp'.op = "deleteNode" /\ lastOp'.arg = "confirmed")
        => \E j \in DOMAIN trees' :
             trees'[j].id = activeTreeId /\ trees'[j].updatedAt = now']_vars
  /\ [](\A i \in DOMAIN trees : trees[i].updatedAt <= now)

\* C15 witness: a resolution added at time 1 was updated at time 3, and the
\* investigation created at time 0 carries updatedAt 3.
C15_Witness ==
  /\ lastOp.op = "handleUpdateResolution"
  /\ now = 3
  /\ trees[1].createdAt = 0 /\ trees[1].updatedAt = 3
  /\ Len(trees[1].resolutions) = 1
  /\ trees[1].resolutions[1].createdAt = 1
  /\ trees[1].resolutions[1].status = "Verified"

\* C16 (last-investigation guard): handleDeleteTree on the only investigation
\* alerts and changes nothing; once the App is initialized the list is never empty
\* and activeTreeId is the id of one of its investigations; after the investigation
\* shown is deleted, the first of the remaining ones is shown.
C16_LastInvestigationGuard ==
  /\ [][(lastOp'.op = "handleDeleteTree" /\ initialized /\ initialized' /\ Len(trees) <= 1)
        => /\ lastOp'.message = CannotDeleteLast
           /\ UNCHANGED <<trees, activeTreeId, selectedNodeId, storage, pendingSaves,
                          hasUnsavedChanges>>]_vars
  /\ [](initialized => (Len(trees) > 0 /\ activeTreeId \in TreeIds))
  /\ [][(/\ lastOp'.op = "handleDeleteTree" /\ lastOp'.arg = "confirmed"
         /\ initialized /\ initialized' /\ lastOp'.node = activeTreeId)
        => activeTreeId' = trees'[1].id]_vars

\* C16 witness: on an installation the App has saved, the first of two
\* investigations was deleted while shown, the second took its place, and the
\* request to delete the second was refused.
C16_Witness ==
  /\ lastOp.op = "handleDeleteTree" /\ lastOp.message = CannotDeleteLast
  /\ lastOp.node = 3
  /\ Len(trees) = 1 /\ trees[1].id = 3 /\ activeTreeId = 3
  /\ storage # NoStorage

\* The stored state is absent, is not JSON, is no object with a trees list, or
\* holds an empty list.
FaultyStorage(raw) ==
  \/ raw.type # "object"
  \/ "trees" \notin DOMAIN raw.item
  \/ raw.item.trees = <<>>

\* C17 (storage-fault fallback): when the stored state is absent, is not JSON, is
\* no object with a trees list, or holds an empty list, loadAppState raises no
\* error and the load effect leaves the App initialized with exactly one
\* investigation, which is shown: new id, a single root of type ISSUE, PENDING,
\* parentId null, no children, and no actions, notes or resolutions.
C17_StorageFaultFallback ==
  [][(lastOp'.op = "loadAppState" /\ ~initialized /\ FaultyStorage(storage))
     => /\ lastOp'.arg # "throws"
        /\ initialized'
        /\ Len(trees') = 1
        /\ trees'[1].id = nextId /\ trees'[1].id # Null
        /\ activeTreeId' = trees'[1].id
        /\ trees'[1].treeData.type = "ISSUE"
        /\ trees'[1].treeData.status = "PENDING"
        /\ trees'[1].treeData.parentId = Null
        /\ trees'[1].treeData.children = <<>>
        /\ trees'[1].actions = <<>>
        /\ trees'[1].notes = <<>>
        /\ trees'[1].resolutions = <<>>]_vars

\* C17 witness: localStorage held text that is not JSON; the App shows one fresh
\* investigation.
C17_Witness ==
  /\ lastOp.op = "loadAppState" /\ lastOp.arg = "catch"
  /\ storage = Garbage
  /\ initialized
  /\ trees = <<defaultTree(1, 2, now)>>
  /\ activeTreeId = 1

\* ------------------------------------------------------------ C18
\* The number of nodes of a tree, and the sum of the counts of a record.
RECURSIVE Size(_)
Size(node) ==
  LET RECURSIVE below(_)
      below(i) == IF i > Len(node.children) THEN 0 ELSE Size(node.children[i]) + below(i + 1)
  IN 1 + below(1)

RECURSIVE SumOf(_, _)
SumOf(counts, keys) ==
  IF keys = {} THEN 0
  ELSE LET key == CHOOSE k \in keys : TRUE
       IN counts[key] + SumOf(counts, keys \ {key})

\* C18 (zero-filled aggregation): for every investigation on the dashboard,
\* nodesByStatus has exactly the four keys PENDING, ACTIVE, RULED_OUT and
\* CONFIRMED, with natural numbers that sum to the number of nodes of the tree,
\* and actionsByStatus has exactly the five keys Open, In Progress, Complete,
\* Blocked and Closed, with counts that sum to the number of actions; a tree of
\* a single pending node gives {PENDING: 1, ACTIVE: 0, RULED_OUT: 0, CONFIRMED: 0}.
C18_ZeroFilledAggregation ==
  lastOp.op = "DashboardView" =>
    /\ DOMAIN rendered.stats = DOMAIN trees
    /\ \A i \in DOMAIN trees :
         LET stats == rendered.stats[i]
             tree == trees[i]
         IN /\ DOMAIN stats.nodesByStatus = {"PENDING", "ACTIVE", "RULED_OUT", "CONFIRMED"}
            /\ \A key \in DOMAIN stats.nodesByStatus : stats.nodesByStatus[key] \in Nat
            /\ SumOf(stats.nodesByStatus, DOMAIN stats.nodesByStatus) = Size(tree.treeData)
            /\ Len(flattenTree(tree.treeData)) = Size(tree.treeData)
            /\ DOMAIN stats.actionsByStatus = {"Open", "In Progress", "Complete", "Blocked", "Closed"}
            /\ \A key \in DOMAIN stats.actionsByStatus : stats.actionsByStatus[key] \in Nat
            /\ SumOf(stats.actionsByStatus, DOMAIN stats.actionsByStatus) = Len(tree.actions)
            /\ (tree.treeData.children = <<>> /\ tree.treeData.status = "PENDING") =>
                 stats.nodesByStatus = [key \in NodeStatus |->
                                          IF key = "PENDING" THEN 1 ELSE 0]

\* The dashboard shows a fresh investigation of a single pending node with two
\* actions under the same status, so that seven of the nine counts are zero.
C18_Witness ==
  /\ lastOp.op = "DashboardView"
  /\ \E i \in DOMAIN trees :
       /\ trees[i].treeData = createInitialTree(2, "New Issue")
       /\ rendered.stats[i].nodesByStatus["PENDING"] = 1
       /\ rendered.stats[i].nodesByStatus["CONFIRMED"] = 0
       /\ rendered.stats[i].actionsByStatus["Blocked"] = 2
       /\ rendered.stats[i].actionsByStatus["Open"] = 0

\* ------------------------------------------------------------ C19
\* The items of a list that are overdue at an instant: the date is filled in,
\* its day started strictly before the instant, and the status is not terminal.
OverdueResolutions(list, at) ==
  {k \in DOMAIN list : /\ list[k].targetDate # NoDate
                       /\ Date(list[k].targetDate) < at
                       /\ list[k].status \notin {"Verified", "Closed"}}

OverdueActions(list, at) ==
  {k \in DOMAIN list : /\ list[k].dueDate # NoDate
                       /\ Date(list[k].dueDate) < at
                       /\ list[k].status \notin {"Complete", "Closed"}}

\* C19 (overdue count): when a summary is rendered, its overdue count is the
\* number of actions (resp. resolutions) with a due (resp. target) date that is
\* filled in and strictly before the current time and with a status other than
\* Complete and Closed (resp. Verified and Closed).  It follows the clock: a
\* single resolution In Progress counts 0 until its target date is past and 1
\* after, and a Verified one counts 0.
C19_OverdueCount ==
  /\ lastOp.op = "InvestigationActionsSummary" =>
       rendered.overdueCount = Cardinality(OverdueActions(actions, now))
  /\ lastOp.op = "ResolutionsSummary" =>
       /\ rendered.overdueCount = Cardinality(OverdueResolutions(resolutions, now))
       /\ (Len(resolutions) = 1 /\ resolutions[1].targetDate # NoDate) =>
            /\ resolutions[1].status = "In Progress" =>
                 rendered.overdueCount =
                   IF Date(resolutions[1].targetDate) < now THEN 1 ELSE 0
            /\ resolutions[1].status = "Verified" => rendered.overdueCount = 0

\* A resolution was verified after its target date had passed, and the summary
\* rendered afterwards counts none.
C19_Witness ==
  /\ lastOp.op = "ResolutionsSummary"
  /\ Len(resolutions) = 1
  /\ resolutions[1].status = "Verified"
  /\ resolutions[1].targetDate # NoDate
  /\ resolutions[1].updatedAt > Date(resolutions[1].targetDate)
  /\ rendered.overdueCount = 0

\* The summary of the actions counts two overdue actions.
C19_ActionsReached ==
  /\ lastOp.op = "InvestigationActionsSummary"
  /\ rendered.overdueCount = 2

\* The summary of the resolutions counts an overdue resolution In Progress.
C19_ResolutionReached ==
  /\ lastOp.op = "ResolutionsSummary"
  /\ rendered.overdueCount = 1
  /\ resolutions[1].status = "In Progress"

\* ------------------------------------------------------------ C20
\* An investigation has work in progress: a node that is ACTIVE or CONFIRMED,
\* or an action that is Open, In Progress or Blocked.
HasWorkInProgress(tree) ==
  \/ \E node \in NodeSet(tree.treeData) : node.status \in {"ACTIVE", "CONFIRMED"}
  \/ \E k \in DOMAIN tree.actions : tree.actions[k].status \in {"Open", "In Progress", "Blocked"}

\* C20 (active classification): on the dashboard an investigation is in the
\* active group if and only if one of its nodes is ACTIVE or CONFIRMED or one of
\* its actions is Open, In Progress or Blocked, whatever its stored isResolved
\* flag; every investigation is in exactly one of the two groups, and the
\* groups hold nothing else.
C20_ActiveClassification ==
  lastOp.op = "DashboardView" =>
    LET activeIds == {rendered.activeTrees[k].id : k \in DOMAIN rendered.activeTrees}
        inactiveIds == {rendered.inactiveTrees[k].id : k \in DOMAIN rendered.inactiveTrees}
    IN /\ \A i \in DOMAIN trees :
            /\ trees[i].id \in activeIds <=> HasWorkInProgress(trees[i])
            /\ trees[i].id \in inactiveIds <=> ~HasWorkInProgress(trees[i])
            /\ trees[i].id \in activeIds <=> trees[i].id \notin inactiveIds
       /\ Range(rendered.activeTrees) \cup Range(rendered.inactiveTrees) = Range(trees)
       /\ Len(rendered.activeTrees) + Len(rendered.inactiveTrees) = Len(trees)

\* The dashboard shows two investigations: one marked resolved that is in the
\* active group, and one not marked resolved that is in the inactive group.
C20_Witness ==
  /\ lastOp.op = "DashboardView"
  /\ Len(trees) = 2
  /\ \E k \in DOMAIN rendered.activeTrees :
       /\ "isResolved" \in DOMAIN rendered.activeTrees[k]
       /\ rendered.activeTrees[k].isResolved
  /\ \E k \in DOMAIN rendered.inactiveTrees :
       /\ "isResolved" \in DOMAIN rendered.inactiveTrees[k]
       /\ ~rendered.inactiveTrees[k].isResolved

\* ------------------------------------------------------------ C21
\* C21 (resolution links are never emptied): in every step, a resolution that
\* had a link and is still in the list has a link afterwards; a click on a link
\* checkbox that would remove the last link changes no investigation.
C21_LinksNeverEmptied ==
  [][/\ \A k \in DOMAIN resolutions, j \in DOMAIN resolutions' :
          (resolutions[k].linkedCauseIds # <<>> /\ resolutions'[j].id = resolutions[k].id)
          => resolutions'[j].linkedCauseIds # <<>>
     /\ lastOp'.op = "linkCheckbox" => trees' = trees
     /\ lastOp'.op = "handleAddResolution" =>
          resolutions'[Len(resolutions')].linkedCauseIds # <<>>]_vars

\* With two root causes in the tree, the checkbox of the only link of a
\* resolution was clicked; the link is to the second root cause, which is not
\* the node selected.
C21_Witness ==
  /\ lastOp.op = "linkCheckbox"
  /\ Len(allRootCauses) = 2
  /\ \E k \in DOMAIN resolutions :
       /\ resolutions[k].id = lastOp.node
       /\ Len(resolutions[k].linkedCauseIds) = 1
       /\ resolutions[k].linkedCauseIds[1] = allRootCauses[2].id
       /\ resolutions[k].linkedCauseIds[1] # getSelectedNode.id

\* ------------------------------------------------------------ C22
\* The ids of the nodes of the tree shown that are confirmed root causes.
RootCauseIds ==
  {node.id : node \in {n \in NodeSet(treeData) : n.status = "CONFIRMED" /\ n.isRootCause}}

\* C22 (resolution links reference root causes): a resolution is created only
\* while a root cause exists, linked to exactly one root cause, and in every
\* state every linked id of every resolution is the id of a node of the tree
\* that is CONFIRMED and marked as root cause.
C22_LinksReferenceRootCauses ==
  /\ lastOp.op = "handleAddResolution" =>
       /\ RootCauseIds # {}
       /\ Len(resolutions[Len(resolutions)].linkedCauseIds) = 1
       /\ resolutions[Len(resolutions)].linkedCauseIds[1] \in RootCauseIds
  /\ \A k \in DOMAIN resolutions : \A j \in DOMAIN resolutions[k].linkedCauseIds :
       resolutions[k].linkedCauseIds[j] \in RootCauseIds

\* The part about creation alone: a resolution that has just been created is
\* linked to exactly one root cause of the tree.
C22_CreatedLinkedToRootCause ==
  lastOp.op = "handleAddResolution" =>
    /\ RootCauseIds # {}
    /\ Len(resolutions[Len(resolutions)].linkedCauseIds) = 1
    /\ resolutions[Len(resolutions)].linkedCauseIds[1] \in RootCauseIds

\* A resolution whose linked node is no longer in the tree.
C22_DanglingLink ==
  \E k \in DOMAIN resolutions : \E j \in DOMAIN resolutions[k].linkedCauseIds :
    resolutions[k].linkedCauseIds[j] \notin TreeNodeIds

\* ------------------------------------------------------------ C23
\* The node of a tree with a given id.
NodeWithId(root, id) == CHOOSE n \in NodeSet(root) : n.id = id

\* C23 (addChild): addChildNode(p) for a node p of the tree adds exactly one
\* node, with an id no node had, as the last child of p, with parentId p,
\* status PENDING, type CAUSE and no children; p keeps its other children in
\* their order and every other node keeps its fields and its children; for a
\* p that is not in the tree, the tree is as before.
C23_AddChild ==
  [][lastOp'.op = "addChildNode" =>
       LET p == lastOp'.node
           old == NodeSet(treeData)
           new == NodeSet(treeData')
       IN IF p \in IdsOf(old)
          THEN /\ Cardinality(new) = Cardinality(old) + 1
               /\ \E added \in new :
                    /\ added.id \notin IdsOf(old)
                    /\ IdsOf(new) = IdsOf(old) \cup {added.id}
                    /\ added.parentId = p
                    /\ added.status = "PENDING"
                    /\ added.type = "CAUSE"
                    /\ added.children = <<>>
                    /\ ChildIds(NodeWithId(treeData', p)) =
                         Append(ChildIds(NodeWithId(treeData, p)), added.id)
               /\ \A n \in old :
                    /\ Fields(NodeWithId(treeData', n.id)) = Fields(n)
                    /\ n.id # p => ChildIds(NodeWithId(treeData', n.id)) = ChildIds(n)
          ELSE treeData' = treeData]_vars

\* A child was added to a node below the root that already had a child.
C23_Witness ==
  /\ lastOp.op = "addChildNode"
  /\ lastOp.node # treeData.id
  /\ lastOp.node \in IdsOf(NodeSet(treeData))
  /\ Len(NodeWithId(treeData, lastOp.node).children) = 2

\* A child was asked for under a node that is not in the tree.
C23_AbsentParentReached ==
  /\ lastOp.op = "addChildNode"
  /\ lastOp.node \notin IdsOf(NodeSet(treeData))
  /\ Cardinality(NodeSet(treeData)) > 1

\* ------------------------------------------------------------ C24
\* C24 (updateNode frame): handleUpdateNode(u) puts u where the node with id
\* u.id was; the nodes outside that position keep their fields, their parent,
\* their children and their order; the number of nodes is unchanged when u
\* has the children the node had; when no node has id u.id the tree is
\* unchanged.  The lists of the investigation are not touched.
C24_UpdateNodeFrame ==
  [][lastOp'.op = "handleUpdateNode" =>
       LET u == updatedNodeOf(lastOp'.arg, lastOp'.node)
           old == NodeSet(treeData)
           new == NodeSet(treeData')
       IN /\ IF u.id \in IdsOf(old)
             THEN LET target == NodeWithId(treeData, u.id)
                      inside == IdsOf(NodeSet(target))
                  IN /\ NodeWithId(treeData', u.id) = u
                     /\ IdsOf(new) = (IdsOf(old) \ inside) \cup IdsOf(NodeSet(u))
                     /\ \A n \in old : n.id \notin inside =>
                          /\ Fields(NodeWithId(treeData', n.id)) = Fields(n)
                          /\ ChildIds(NodeWithId(treeData', n.id)) = ChildIds(n)
                     /\ u.children = target.children =>
                          Cardinality(new) = Cardinality(old)
             ELSE treeData' = treeData
          /\ activeTree'.actions = activeTree.actions
          /\ activeTree'.notes = activeTree.notes
          /\ resolutionsOf(activeTree') = resolutionsOf(activeTree)]_vars

\* The label of a node below the root that has a child was replaced.
C24_Witness ==
  /\ lastOp.op = "handleUpdateNode" /\ lastOp.arg = "label"
  /\ lastOp.node # treeData.id
  /\ lastOp.node \in IdsOf(NodeSet(treeData))
  /\ NodeWithId(treeData, lastOp.node).label = EditedLabel
  /\ NodeWithId(treeData, lastOp.node).children # <<>>
  /\ treeData.label # EditedLabel

\* handleUpdateNode was called with a node whose id is not in the tree.
C24_AbsentReached ==
  /\ lastOp.op = "handleUpdateNode" /\ lastOp.arg = "absent"
  /\ Cardinality(NodeSet(treeData)) > 1

\* ------------------------------------------------------------ C25
\* The ids of the records of a list, in the order of the list.
IdSeq(list) == [k \in DOMAIN list |-> list[k].id]

\* A step from one list to the next replaces in place: if it keeps the set of
\* ids (an edit) it keeps their order and changes at most one record; if it
\* removes one id it leaves the other records as they were, in their order.
ReplacesInPlace(before, after) ==
  /\ (Range(IdSeq(after)) = Range(IdSeq(before)) /\ Len(after) = Len(before)) =>
       /\ IdSeq(after) = IdSeq(before)
       /\ Cardinality({k \in DOMAIN before : after[k] # before[k]}) <= 1
  /\ \A k \in DOMAIN before :
       (Range(IdSeq(after)) = Range(IdSeq(before)) \ {before[k].id}
        /\ Len(after) = Len(before) - 1) =>
         after = SelectSeq(before, LAMBDA r : r.id # before[k].id)

\* C25 (replace by id): an edit of an action, a note or a resolution leaves the
\* list with the same length and the same ids in the same order and changes no
\* other record; a removal removes that record and keeps the order of the rest.
C25_ReplaceById ==
  [][/\ ReplacesInPlace(actions, actions')
     /\ ReplacesInPlace(notes, notes')
     /\ ReplacesInPlace(resolutions, resolutions')]_vars

\* The same for the actions and the resolutions alone.
C25_ActionsAndResolutions ==
  [][/\ ReplacesInPlace(actions, actions')
     /\ ReplacesInPlace(resolutions, resolutions')]_vars

\* The removal of a note alone.
C25_NoteRemoval ==
  [][\A k \in DOMAIN notes :
       (Range(IdSeq(notes')) = Range(IdSeq(notes)) \ {notes[k].id}
        /\ Len(notes') = Len(notes) - 1) =>
         notes' = SelectSeq(notes, LAMBDA r : r.id # notes[k].id)]_vars

\* ------------------------------------------------------------ C26
\* C26 (no cascade on deletion): a deleteNode step changes nothing but treeData
\* and updatedAt of the investigation shown: its actions, notes, resolutions
\* and other fields are as before, whichever node they refer to, and every
\* other investigation is as before.
C26_NoCascade ==
  [][lastOp'.op = "deleteNode" =>
       /\ DOMAIN trees' = DOMAIN trees
       /\ \A i \in DOMAIN trees :
            IF trees[i].id = activeTreeId
            THEN /\ DOMAIN trees'[i] = DOMAIN trees[i]
                 /\ \A field \in DOMAIN trees[i] \ {"treeData", "updatedAt"} :
                      trees'[i][field] = trees[i][field]
            ELSE trees'[i] = trees[i]]_vars

\* With two investigations in the list, a node was deleted that an action, a
\* note and a resolution of the investigation refer to; they are still there.
C26_Witness ==
  /\ lastOp.op = "deleteNode" /\ lastOp.arg = "confirmed"
  /\ Len(trees) = 2
  /\ lastOp.node \notin TreeNodeIds
  /\ \E k \in DOMAIN actions : actions[k].causeId = lastOp.node
  /\ \E k \in DOMAIN notes : notes[k].referenceId = lastOp.node
  /\ \E k \in DOMAIN resolutions : resolutions[k].linkedCauseIds = <<lastOp.node>>

\* ------------------------------------------------------------ C27
\* C27 (ruled-out nodes stay evidenced): in every state every node whose status
\* is RULED_OUT has a note that refers to it and is flagged as evidence.
C27_RuledOutStayEvidenced ==
  \A i \in DOMAIN trees : \A node \in NodeSet(trees[i].treeData) :
    node.status = "RULED_OUT" => EvidenceFor(trees[i], node.id)

\* The inspector shows "Evidence verified." for a selected node that has no
\* evidence note.
C27_UnevidencedShown ==
  /\ hasSelectedNode /\ activeTab = "details"
  /\ getSelectedNode.status = "RULED_OUT"
  /\ ~EvidenceFor(activeTree, getSelectedNode.id)

\* A stored document that loadAppState reads without migrating and that lists
\* its projects.
KeepsSchema(raw) ==
  IsV2Document(raw) /\ raw.item.version = 2 /\ "projects" \in DOMAIN raw.item

\* C28 (persisted schema version is stable): once localStorage holds a version-2
\* document with its projects list, every later step leaves one there. From an
\* empty localStorage only the migration of loadAppState writes such a document,
\* so this is "once migrated, every later write is version 2 with projects".
C28_SchemaVersionStable ==
  [][KeepsSchema(storage) => KeepsSchema(storage')]_vars

\* The migration has written version 2 and the auto-save has since replaced it
\* with a document that has no version field.
C28_VersionDropped ==
  /\ lastOp.op = "saveAppState"
  /\ IsV1Document(storage)
  /\ \E i \in DOMAIN lastOp.result.trees : "projectId" \in DOMAIN lastOp.result.trees[i]

\* The investigations the downloaded files hold: the elements of an array file,
\* the object of a single-investigation file.
ExportedTrees ==
  UNION {IF file.type = "array" THEN {file.items[i] : i \in DOMAIN file.items}
         ELSE {file.item} : file \in downloads}

\* C29 (dirty flag soundness): while the App is initialized and hasUnsavedChanges
\* is false, every investigation of the list is, as it is now, in a file that was
\* downloaded.
C29_DirtyFlagSound ==
  initialized /\ ~hasUnsavedChanges => \A i \in DOMAIN trees : trees[i] \in ExportedTrees

\* C29 for the exports of the whole list: after handleExportAll, handleBackupNow
\* or an auto-backup that downloaded, every investigation is in a downloaded file.
C29_FullExportsSound ==
  lastOp.op \in {"autoBackup", "handleExportAll", "handleBackupNow"} /\ lastOp.arg = "export"
    => \A i \in DOMAIN trees : trees[i] \in ExportedTrees

\* An investigation was given a child cause, another investigation was exported
\* alone, and the flag is clear though no file holds the first as it is now.
C29_ChangeNotExported ==
  /\ initialized /\ ~hasUnsavedChanges
  /\ lastOp.op = "handleExportTree" /\ lastOp.arg = "export"
  /\ \E i \in DOMAIN trees :
       /\ trees[i].id # lastOp.node
       /\ trees[i].treeData.children # <<>>
       /\ trees[i] \notin ExportedTrees

\* C30 (auto-backup bounded response): while auto-backup is enabled and
\* hasUnsavedChanges is true, no more than the interval has passed since the flag
\* became true, however many changes were made since.
C30_AutoBackupBoundedResponse ==
  initialized /\ settings.autoBackupEnabled /\ hasUnsavedChanges
    => now <= dirtySince + intervalMs(settings)

\* C30 counted from the last restart of the interval: while the flag is true no
\* more than the interval has passed since the interval was armed or fired.
C30_BoundedSinceRestart ==
  initialized /\ settings.autoBackupEnabled /\ hasUnsavedChanges
    => backupTimer # NoTimer /\ now <= backupTimer + intervalMs(settings)

\* The flag has been true for longer than the interval, and the interval that
\* runs was armed after the flag became true, by a change made in between.
C30_ExportPostponed ==
  /\ initialized /\ settings.autoBackupEnabled /\ hasUnsavedChanges
  /\ now > dirtySince + intervalMs(settings)
  /\ backupTimer > dirtySince
  /\ lastOp.op = "other"
====
